---- MODULE Spec2Model ----
(***************************************************************************)
(* Model of the marketing-content pipeline: StateManager (status, result, *)
(* execution log), BaseAgent.run (template method), LLMProvider.generate   *)
(* (retry with backoff) and CoordinatorAgent.execute (7-step workflow).    *)
(***************************************************************************)
EXTENDS Integers, Sequences, FiniteSets, TLC

(***************************************************************************)
(* Bounds of the model (not program constants).                            *)
(***************************************************************************)
\* most faults the backend raises during one run
MaxFaults == 3
\* largest max_retries argument tried when generate is exercised on its own
MaxRetriesBound == 3
\* most StateManager calls a client makes
MaxCalls == 3

(***************************************************************************)
(* Program constants.                                                      *)
(***************************************************************************)
DEFAULT_MAX_RETRIES == 3
BACKOFF_UNIT == 30
WAIT_SECONDS == 5
MIN_FAQ_ITEMS == 15
MIN_BENEFITS == 2
MIN_COMPARISON_ROWS == 4
API_CALLS == 5

(***************************************************************************)
(* AgentStatus                                                             *)
(***************************************************************************)
PENDING == "pending"
RUNNING == "running"
COMPLETED == "completed"
FAILED == "failed"
SKIPPED == "skipped"
AgentStatus == {PENDING, RUNNING, COMPLETED, FAILED, SKIPPED}

(***************************************************************************)
(* Agent names, as passed to BaseAgent.__init__ by each subclass.          *)
(***************************************************************************)
Coordinator == "Coordinator"
DataExtractor == "DataExtractor"
QuestionGenerator == "QuestionGenerator"
ProductCreator == "ProductCreator"
ContentGenerator == "ContentGenerator"
QualityValidator == "QualityValidator"
Workers == {DataExtractor, QuestionGenerator, ProductCreator, ContentGenerator, QualityValidator}
Agents == Workers \cup {Coordinator}

VARIABLES
    agent_status,     \* StateManager._agent_status   (dict: name -> status)
    agent_results,    \* StateManager._agent_results  (dict: name -> result)
    execution_log,    \* StateManager._execution_log  (list of events)
    logged,           \* records emitted through the AgentLogger (warnings, execution traces)
    stack,            \* active BaseAgent.run calls, outermost first
    co,               \* locals of CoordinatorAgent.execute
    gen,              \* locals of the active LLMProvider.generate call
    now,              \* wall clock in seconds (advanced by time.sleep)
    sleeps,           \* durations passed to time.sleep, in call order
    invocations,      \* number of backend invocations made so far
    fault_budget,     \* faults the backend may still raise
    runs,             \* per workflow step: how many times its run was invoked
    mock_mode,        \* MOCK_MODE environment flag
    state,            \* StateManager._state          (dict: key -> value)
    workflow_start,   \* StateManager._workflow_start
    workflow_end,     \* StateManager._workflow_end
    calls             \* the StateManager calls a client has made, with what they returned

vars == <<agent_status, agent_results, execution_log, logged, stack, co, gen,
          now, sleeps, invocations, fault_budget, runs, mock_mode,
          state, workflow_start, workflow_end, calls>>

\* the part of the StateManager that BaseAgent.run and the agents never touch
client == <<state, workflow_start, workflow_end, calls>>

(***************************************************************************)
(* Python values. Every value is a record tagged with its type t, so that  *)
(* isinstance tests and truthiness are evaluated, not assumed.             *)
(***************************************************************************)
None == [t |-> "None"]
\* int and str values the coordinator reports
IntOf(n) == [t |-> "int", v |-> n]
StrOf(str) == [t |-> "str", v |-> str]
\* json.load results that are not mappings
RawList == [t |-> "list"]
\* ProductData fields declared with Field(...), by alias
RequiredFields == {"Product Name", "Skin Type", "Key Ingredients", "Benefits", "How to Use", "Price"}
\* a mapping carrying every required ProductData field
RawProduct == [t |-> "dict", keys |-> RequiredFields \cup {"Concentration", "Side Effects"},
               product_name |-> "GlowBoost"]
\* a mapping lacking a required ProductData field
RawIncomplete == [t |-> "dict", keys |-> RequiredFields \ {"Price"}, product_name |-> "GlowBoost"]

ProductDataOf(name) == [t |-> "ProductData", product_name |-> name]
ProductA == ProductDataOf("GlowBoost")
\* _mock_product_b
MockProductB == ProductDataOf("RadiantGlow")

IsNone(v) == v.t = "None"
IsDict(v) == v.t = "dict"
IsProductData(v) == v.t = "ProductData"
\* `key in d` for a mapping d
HasKey(d, k) == k \in d.keys

\* outcome of a call: a returned value or a raised fault
Ok(v) == [ok |-> TRUE, value |-> v]

(***************************************************************************)
(* Faults (Python exceptions). Backend faults carry their message as a     *)
(* sequence of characters, because generate classifies them by substring.  *)
(***************************************************************************)
NoFault == [type |-> "none"]
ValueErrorOf(why) == [type |-> "ValueError", why |-> why]
ErrorOf(type, why) == [type |-> type, why |-> why]
BackendFault(msg) == [type |-> "BackendError", msg |-> msg]
Raise(f) == [ok |-> FALSE, fault |-> f]
\* execute has reached its generate_json call and waits for the backend
NeedsLLM == [ok |-> FALSE, fault |-> NoFault]
RetriesExhausted == ValueErrorOf("LLM generation failed after max retries")

BackendMessages ==
    { <<"R","a","t","e">>, <<"Q","U","O","T","A">>, <<"4","2","9">>,
      <<"5","0","0">>, <<"r","a","t">> }

\* str.lower on the characters that occur in backend messages
LowerChar(c) ==
    CASE c = "R" -> "r" [] c = "Q" -> "q" [] c = "U" -> "u" [] c = "O" -> "o"
      [] c = "T" -> "t" [] c = "A" -> "a" [] c = "E" -> "e" [] OTHER -> c

Lower(s) == [i \in 1..Len(s) |-> LowerChar(s[i])]

\* Python's `sub in s` on strings
Contains(sub, s) ==
    \E i \in 0..(Len(s) - Len(sub)) : SubSeq(s, i + 1, i + Len(sub)) = sub

\* IsThrottling with "rat" tested in place of "rate"
IsThrottlingTypo(msg) ==
    LET error_str == Lower(msg)
    IN  \/ Contains(<<"r","a","t">>, error_str)
        \/ Contains(<<"q","u","o","t","a">>, error_str)
        \/ Contains(<<"4","2","9">>, error_str)

\* llm_provider.py:86-88
IsThrottling(msg) ==
    LET error_str == Lower(msg)
    IN  \/ Contains(<<"r","a","t","e">>, error_str)
        \/ Contains(<<"q","u","o","t","a">>, error_str)
        \/ Contains(<<"4","2","9">>, error_str)

(***************************************************************************)
(* StateManager                                                            *)
(***************************************************************************)
\* dict[k] = v
DictSet(d, k, v) == [x \in (DOMAIN d) \cup {k} |-> IF x = k THEN v ELSE d[x]]
\* dict.get(k, default)
DictGet(d, k, default) == IF k \in DOMAIN d THEN d[k] ELSE default
EmptyDict == [x \in {} |-> None]

_log_event(event_type, data) ==
    execution_log' = Append(execution_log, [event_type |-> event_type, data |-> data])

\* set_agent_status with the event inserted at the head of the log
set_agent_status_prepending(agent_name, status) ==
    /\ agent_status' = DictSet(agent_status, agent_name, status)
    /\ execution_log' = <<[event_type |-> "agent_status_change",
                           data |-> [agent |-> agent_name, status |-> status,
                                     timestamp |-> now]]>> \o execution_log

\* set_agent_status without the _log_event call of lines 57-61
set_agent_status_unlogged(agent_name, status) ==
    /\ agent_status' = DictSet(agent_status, agent_name, status)
    /\ UNCHANGED execution_log

set_agent_status(agent_name, status) ==
    /\ agent_status' = DictSet(agent_status, agent_name, status)
    /\ _log_event("agent_status_change",
                  [agent |-> agent_name, status |-> status, timestamp |-> now])

get_agent_status(agent_name) == DictGet(agent_status, agent_name, PENDING)

set_agent_result(agent_name, result) ==
    /\ agent_results' = DictSet(agent_results, agent_name, result)
    /\ _log_event("agent_result_stored", [agent |-> agent_name, timestamp |-> now])

get_agent_result(agent_name) == DictGet(agent_results, agent_name, None)

(***************************************************************************)
(* AgentLogger: the records that matter to the pipeline's observable trail *)
(***************************************************************************)
\* AgentLogger.execution_trace
execution_trace(agent_name, action, status, duration_ms) ==
    [kind |-> "execution_trace", agent |-> agent_name, action |-> action,
     status |-> status, duration_ms |-> duration_ms]

\* AgentLogger.warning
warning(logger_name, message) ==
    [kind |-> "warning", agent |-> logger_name, message |-> message]

\* AgentLogger.error, with the fault the message reports
error(logger_name, fault) ==
    [kind |-> "error", agent |-> logger_name, fault |-> fault]

\* the records are emitted in order
Emit(records) == logged' = logged \o records

(***************************************************************************)
(* BaseAgent.run: one frame per active call. pos is the position inside    *)
(* run; called lists the template methods this call has invoked; llm_fault *)
(* is the fault generate_json raised inside this call's execute, if any.   *)
(***************************************************************************)
Frame(agent, input_data, step) ==
    [agent |-> agent, input_data |-> input_data, step |-> step, pos |-> "start",
     start_time |-> 0, called |-> <<>>, result |-> None, formatted_result |-> None,
     fault |-> NoFault, llm_fault |-> NoFault]

Top == stack[Len(stack)]
SetTop(f) == [stack EXCEPT ![Len(stack)] = f]
Active == stack # <<>>

\* BaseAgent.validate_input and its overrides; NoFault when the input is accepted
validate_input(agent, input_data) ==
    CASE agent = DataExtractor ->
            IF ~IsDict(input_data) THEN ValueErrorOf("Input data must be a dictionary")
            ELSE NoFault
      [] agent \in {QuestionGenerator, ProductCreator} ->
            IF ~IsProductData(input_data) THEN ValueErrorOf("Input must be a ProductData object")
            ELSE NoFault
      [] agent = QualityValidator ->
            IF ~IsDict(input_data)
            THEN ValueErrorOf("Input must be a dictionary containing the 3 pages")
            ELSE IF \E key \in {"faq", "product_page", "comparison"} : ~HasKey(input_data, key)
                 THEN ValueErrorOf("Missing required key")
                 ELSE NoFault
      [] OTHER ->
            IF IsNone(input_data) THEN ValueErrorOf("Input data cannot be None")
            ELSE NoFault

\* BaseAgent.format_output (no subclass overrides it)
format_output(result) == result

\* elapsed wall-clock time of the top call, in milliseconds
duration_ms == (now - Top.start_time) * 1000

\* RunStart without the set_agent_status call of line 60
RunStartSilent ==
    /\ Active /\ Top.pos = "start"
    /\ stack' = SetTop([Top EXCEPT !.pos = "validate", !.start_time = now])
    /\ UNCHANGED <<agent_status, agent_results, execution_log, logged, co, gen, now,
                   sleeps, invocations, fault_budget, runs, mock_mode, client>>

\* run, lines 56-61: record the start time and set the status to RUNNING
RunStart ==
    /\ Active /\ Top.pos = "start"
    /\ set_agent_status(Top.agent, RUNNING)
    /\ stack' = SetTop([Top EXCEPT !.pos = "validate", !.start_time = now])
    /\ UNCHANGED <<agent_results, logged, co, gen, now, sleeps, invocations,
                   fault_budget, runs, mock_mode, client>>

\* RunValidate with the verdict of validate_input ignored
RunValidateIgnored ==
    /\ Active /\ Top.pos = "validate"
    /\ stack' = SetTop([Top EXCEPT !.pos = "execute",
                                   !.called = Append(@, "validate_input")])
    /\ UNCHANGED <<agent_status, agent_results, execution_log, logged, co, gen, now,
                   sleeps, invocations, fault_budget, runs, mock_mode, client>>

\* run, lines 63-65: validate_input; a rejection enters the except clause
RunValidate ==
    /\ Active /\ Top.pos = "validate"
    /\ LET f == validate_input(Top.agent, Top.input_data)
           t == [Top EXCEPT !.called = Append(@, "validate_input")]
       IN  stack' = SetTop(IF f = NoFault THEN [t EXCEPT !.pos = "execute"]
                           ELSE [t EXCEPT !.pos = "except", !.fault = f])
    /\ UNCHANGED <<agent_status, agent_results, execution_log, logged, co, gen, now,
                   sleeps, invocations, fault_budget, runs, mock_mode, client>>

\* the top call's execute has finished with outcome r
FinishExecute(frame, r) ==
    IF r.ok THEN [frame EXCEPT !.pos = "format", !.result = r.value]
    ELSE [frame EXCEPT !.pos = "except", !.fault = r.fault]

\* run, lines 71-73: format_output
RunFormat ==
    /\ Active /\ Top.pos = "format"
    /\ stack' = SetTop([Top EXCEPT !.pos = "store",
                                   !.called = Append(@, "format_output"),
                                   !.formatted_result = format_output(Top.result)])
    /\ UNCHANGED <<agent_status, agent_results, execution_log, logged, co, gen, now,
                   sleeps, invocations, fault_budget, runs, mock_mode, client>>

\* RunStore without the set_agent_result call of line 76
RunStoreSkipped ==
    /\ Active /\ Top.pos = "store"
    /\ stack' = SetTop([Top EXCEPT !.pos = "complete"])
    /\ UNCHANGED <<agent_status, agent_results, execution_log, logged, co, gen, now,
                   sleeps, invocations, fault_budget, runs, mock_mode, client>>

\* run, lines 75-76: store the formatted result
RunStore ==
    /\ Active /\ Top.pos = "store"
    /\ set_agent_result(Top.agent, Top.formatted_result)
    /\ stack' = SetTop([Top EXCEPT !.pos = "complete"])
    /\ UNCHANGED <<agent_status, logged, co, gen, now, sleeps, invocations,
                   fault_budget, runs, mock_mode, client>>

\* RunComplete without the set_agent_status call of line 79
RunCompleteSilent ==
    /\ Active /\ Top.pos = "complete"
    /\ Emit(<<execution_trace(Top.agent, "execute", "completed", duration_ms)>>)
    /\ stack' = SetTop([Top EXCEPT !.pos = "returned"])
    /\ UNCHANGED <<agent_status, agent_results, execution_log, co, gen, now, sleeps,
                   invocations, fault_budget, runs, mock_mode, client>>

\* run, lines 78-91: status COMPLETED, completion trace, return formatted_result
RunComplete ==
    /\ Active /\ Top.pos = "complete"
    /\ set_agent_status(Top.agent, COMPLETED)
    /\ Emit(<<execution_trace(Top.agent, "execute", "completed", duration_ms)>>)
    /\ stack' = SetTop([Top EXCEPT !.pos = "returned"])
    /\ UNCHANGED <<agent_results, co, gen, now, sleeps, invocations,
                   fault_budget, runs, mock_mode, client>>

\* RunExcept resetting the stored result of the failed agent
RunExceptClearing ==
    /\ Active /\ Top.pos = "except"
    /\ agent_status' = DictSet(agent_status, Top.agent, FAILED)
    /\ agent_results' = DictSet(agent_results, Top.agent, None)
    /\ execution_log' = Append(execution_log,
                               [event_type |-> "agent_status_change",
                                data |-> [agent |-> Top.agent, status |-> FAILED,
                                          timestamp |-> now]])
    /\ Emit(<<error(Top.agent, Top.fault),
              execution_trace(Top.agent, "execute", "failed", duration_ms)>>)
    /\ stack' = SetTop([Top EXCEPT !.pos = "raised"])
    /\ UNCHANGED <<co, gen, now, sleeps, invocations, fault_budget, runs, mock_mode,
                   client>>

\* RunExcept without the set_agent_status call of line 95
RunExceptSilent ==
    /\ Active /\ Top.pos = "except"
    /\ Emit(<<error(Top.agent, Top.fault),
              execution_trace(Top.agent, "execute", "failed", duration_ms)>>)
    /\ stack' = SetTop([Top EXCEPT !.pos = "raised"])
    /\ UNCHANGED <<agent_status, agent_results, execution_log, co, gen, now, sleeps,
                   invocations, fault_budget, runs, mock_mode, client>>

\* RunExcept without the raise of line 107: the call returns None
RunExceptSwallowed ==
    /\ Active /\ Top.pos = "except"
    /\ set_agent_status(Top.agent, FAILED)
    /\ Emit(<<error(Top.agent, Top.fault),
              execution_trace(Top.agent, "execute", "failed", duration_ms)>>)
    /\ stack' = SetTop([Top EXCEPT !.pos = "returned"])
    /\ UNCHANGED <<agent_results, co, gen, now, sleeps, invocations,
                   fault_budget, runs, mock_mode, client>>

\* run, lines 93-107: status FAILED, failure trace, re-raise
RunExcept ==
    /\ Active /\ Top.pos = "except"
    /\ set_agent_status(Top.agent, FAILED)
    /\ Emit(<<error(Top.agent, Top.fault),
              execution_trace(Top.agent, "execute", "failed", duration_ms)>>)
    /\ stack' = SetTop([Top EXCEPT !.pos = "raised"])
    /\ UNCHANGED <<agent_results, co, gen, now, sleeps, invocations,
                   fault_budget, runs, mock_mode, client>>

(***************************************************************************)
(* Backend responses. A response text is classified by what the extraction *)
(* and the requesting step make of it:                                     *)
(*   full    a mapping in the requested format, meeting the thresholds     *)
(*   short   a mapping in the requested format, below the thresholds       *)
(*   other   a non-empty mapping of unrelated string values                *)
(*   empty   the empty mapping {}                                          *)
(*   array   a JSON array                                                  *)
(*   garbage text from which no strategy extracts JSON                     *)
(***************************************************************************)
(***************************************************************************)
(* Text. A str is a sequence of one-character strings.                     *)
(***************************************************************************)
\* the backtick character (a string literal of the module cannot hold it)
Tick == "tick"

Min(S) == CHOOSE x \in S : \A y \in S : x <= y
Max(S) == CHOOSE x \in S : \A y \in S : x >= y

\* s[i], or "" outside the text
CharAt(s, i) == IF i \in 1..Len(s) THEN s[i] ELSE ""
\* s[i:] in 1-based positions
From(s, i) == SubSeq(s, i, Len(s))
\* str.find / str.rfind, 1-based; 0 when sub does not occur
Find(sub, s) ==
    LET at == {i \in 1..(Len(s) - Len(sub) + 1) : SubSeq(s, i, i + Len(sub) - 1) = sub}
    IN  IF at = {} THEN 0 ELSE Min(at)
RFind(sub, s) ==
    LET at == {i \in 1..(Len(s) - Len(sub) + 1) : SubSeq(s, i, i + Len(sub) - 1) = sub}
    IN  IF at = {} THEN 0 ELSE Max(at)
\* str.split(sep)
RECURSIVE Split(_, _)
Split(s, sep) ==
    LET i == Find(sep, s)
    IN  IF i = 0 THEN <<s>>
        ELSE <<SubSeq(s, 1, i - 1)>> \o Split(From(s, i + Len(sep)), sep)
Whitespace == {" ", "\n", "\t", "\r"}
\* str.strip()
Strip(s) ==
    LET ink == {i \in DOMAIN s : s[i] \notin Whitespace}
    IN  IF ink = {} THEN <<>> ELSE SubSeq(s, Min(ink), Max(ink))

(***************************************************************************)
(* json.loads on the JSON the modelled texts can hold: objects, arrays,    *)
(* strings without escape sequences, unsigned integers, true, false, null. *)
(* Parsed values are tagged like every other Python value:                 *)
(*   dict  pairs, the (key, value) items in insertion order                *)
(*   list  elems         str  chars         int  v        bool  v    None  *)
(***************************************************************************)
DictOf(pairs) == [t |-> "dict", pairs |-> pairs]
ListOf(elems) == [t |-> "list", elems |-> elems]
CharsOf(chars) == [t |-> "str", chars |-> chars]
BoolOf(b) == [t |-> "bool", v |-> b]
\* d[k] = v on the items of a dict: a repeated key keeps its place
PairsSet(pairs, k, v) ==
    IF \E i \in DOMAIN pairs : pairs[i].k = k
    THEN [i \in DOMAIN pairs |-> IF pairs[i].k = k THEN [k |-> k, v |-> v] ELSE pairs[i]]
    ELSE Append(pairs, [k |-> k, v |-> v])

Digits == <<"0", "1", "2", "3", "4", "5", "6", "7", "8", "9">>
IsDigit(c) == \E d \in DOMAIN Digits : Digits[d] = c
DigitValue(c) == (CHOOSE d \in DOMAIN Digits : Digits[d] = c) - 1
\* the first position at or after i that holds no JSON whitespace
SkipWs(s, i) ==
    LET ink == {j \in i..Len(s) : s[j] \notin Whitespace}
    IN  IF ink = {} THEN Len(s) + 1 ELSE Min(ink)
\* sub occurs in s at position i
StartsAt(s, i, sub) == i + Len(sub) - 1 <= Len(s) /\ SubSeq(s, i, i + Len(sub) - 1) = sub

\* a scan that did not find a value
NoParse == [ok |-> FALSE, value |-> None, next |-> 0]
Parsed(value, next) == [ok |-> TRUE, value |-> value, next |-> next]

\* a string literal whose opening quote is at i
ParseString(s, i) ==
    LET close == {j \in (i + 1)..Len(s) : s[j] = "\""}
    IN  IF close = {} THEN NoParse
        ELSE LET j == Min(close)
                 body == SubSeq(s, i + 1, j - 1)
             IN  IF \E k \in DOMAIN body : body[k] \in {"\n", "\t", "\r", "\\"}
                 THEN NoParse
                 ELSE Parsed(CharsOf(body), j + 1)

\* an unsigned integer whose first digit is at i; a leading 0 stands alone
RECURSIVE ParseDigits(_, _, _)
ParseDigits(s, i, acc) ==
    IF IsDigit(CharAt(s, i)) THEN ParseDigits(s, i + 1, 10 * acc + DigitValue(s[i]))
    ELSE Parsed(IntOf(acc), i)
ParseNumber(s, i) ==
    IF s[i] = "0" THEN Parsed(IntOf(0), i + 1) ELSE ParseDigits(s, i, 0)

RECURSIVE ParseValue(_, _), ParseMembers(_, _, _), ParseElements(_, _, _)
\* the value that starts at the non-blank position j
ValueAt(s, j, c) ==
    CASE c = "{" ->
            IF CharAt(s, SkipWs(s, j + 1)) = "}"
            THEN Parsed(DictOf(<<>>), SkipWs(s, j + 1) + 1)
            ELSE ParseMembers(s, j + 1, <<>>)
      [] c = "[" ->
            IF CharAt(s, SkipWs(s, j + 1)) = "]"
            THEN Parsed(ListOf(<<>>), SkipWs(s, j + 1) + 1)
            ELSE ParseElements(s, j + 1, <<>>)
      [] c = "\"" -> ParseString(s, j)
      [] IsDigit(c) -> ParseNumber(s, j)
      [] StartsAt(s, j, <<"t", "r", "u", "e">>) -> Parsed(BoolOf(TRUE), j + 4)
      [] StartsAt(s, j, <<"f", "a", "l", "s", "e">>) -> Parsed(BoolOf(FALSE), j + 5)
      [] StartsAt(s, j, <<"n", "u", "l", "l">>) -> Parsed(None, j + 4)
      [] OTHER -> NoParse
\* the value that starts at the first non-blank position at or after i
ParseValue(s, i) == ValueAt(s, SkipWs(s, i), CharAt(s, SkipWs(s, i)))

\* a member has been read up to the non-blank position sep: acc holds it
MemberEnd(s, sep, acc) ==
    CASE CharAt(s, sep) = "," -> ParseMembers(s, sep + 1, acc)
      [] CharAt(s, sep) = "}" -> Parsed(DictOf(acc), sep + 1)
      [] OTHER -> NoParse
\* a member's key and the scan of its value
MemberValue(s, key, val, pairs) ==
    IF ~val.ok THEN NoParse
    ELSE MemberEnd(s, SkipWs(s, val.next), PairsSet(pairs, key.value.chars, val.value))
\* the scan of a member's key; colon is the non-blank position after it
MemberColon(s, key, colon, pairs) ==
    IF ~key.ok \/ CharAt(s, colon) # ":" THEN NoParse
    ELSE MemberValue(s, key, ParseValue(s, colon + 1), pairs)
\* a member whose key is expected at the non-blank position j
MemberKey(s, j, key, pairs) ==
    IF CharAt(s, j) # "\"" THEN NoParse
    ELSE MemberColon(s, key, SkipWs(s, key.next), pairs)
\* the members of an object from position i on, a key expected first
ParseMembers(s, i, pairs) ==
    MemberKey(s, SkipWs(s, i), ParseString(s, SkipWs(s, i)), pairs)

\* an element has been read up to the non-blank position sep: acc holds it
ElementEnd(s, sep, acc) ==
    CASE CharAt(s, sep) = "," -> ParseElements(s, sep + 1, acc)
      [] CharAt(s, sep) = "]" -> Parsed(ListOf(acc), sep + 1)
      [] OTHER -> NoParse
\* the scan of an element
ElementValue(s, val, elems) ==
    IF ~val.ok THEN NoParse
    ELSE ElementEnd(s, SkipWs(s, val.next), Append(elems, val.value))
\* the elements of an array from position i on, a value expected first
ParseElements(s, i, elems) == ElementValue(s, ParseValue(s, i), elems)

\* the scan r of the whole of s: one value, blanks around it, nothing else
Loaded(s, r) ==
    IF r.ok /\ SkipWs(s, r.next) > Len(s) THEN Ok(r.value)
    ELSE Raise(ErrorOf("JSONDecodeError", "not JSON"))
\* json.loads(s)
json_loads(s) == Loaded(s, ParseValue(s, 1))

TextOf(chars) == [t |-> "str", chars |-> chars]
\* the texts the backend answers a step's prompt with, one of each class
FullText == TextOf(<<Tick, Tick, Tick, "j", "s", "o", "n", "\n", "{", "\"", "f", "u", "l", "l", "\"", ":", " ", "1", "}", "\n", Tick, Tick, Tick>>)
ShortText == TextOf(<<"{", "\"", "s", "h", "o", "r", "t", "\"", ":", " ", "1", "}">>)
OtherText == TextOf(<<"{", "\"", "o", "t", "h", "e", "r", "\"", ":", " ", "\"", "x", "\"", "}">>)
EmptyText == TextOf(<<"{", "}">>)
ArrayText == TextOf(<<"[", "1", "]">>)
GarbageText == TextOf(<<"S", "o", "r", "r", "y", ",", " ", "n", "o", ".">>)
Texts == {FullText, ShortText, OtherText, EmptyText, ArrayText, GarbageText}
\* _mock_response
MockText == TextOf(<<"{", "\"", "m", "o", "c", "k", "\"", ":", " ", "t", "r", "u", "e", ",", " ", "\"", "m", "e", "s", "s", "a", "g", "e", "\"", ":", " ", "\"", "T", "h", "i", "s", " ", "i", "s", " ", "a", " ", "m", "o", "c", "k", " ", "r", "e", "s", "p", "o", "n", "s", "e", "\"", "}">>)

\* the class of a parsed mapping, read off its first key
KindOf(mapping) ==
    IF mapping.pairs = <<>> THEN "empty"
    ELSE CASE mapping.pairs[1].k = <<"f", "u", "l", "l">> -> "full"
           [] mapping.pairs[1].k = <<"s", "h", "o", "r", "t">> -> "short"
           [] OTHER -> "other"

\* the test 'is not None' in place of truthiness
TruthyNotNone(v) == v.t # "None"

\* Python truthiness of the values the pipeline tests
Truthy(v) ==
    CASE v.t = "None" -> FALSE
      [] v.t = "dict" /\ "size" \in DOMAIN v -> v.size > 0
      [] v.t = "dict" /\ "pairs" \in DOMAIN v -> v.pairs # <<>>
      [] OTHER -> TRUE

(***************************************************************************)
(* generate_json, lines 107-156: extraction of JSON from the response text *)
(***************************************************************************)
Fence == <<Tick, Tick, Tick>>
FenceJson == Fence \o <<"j", "s", "o", "n">>

\* lines 108-115: the content of the first fence, if there is one, stripped
CleanResponse(text) ==
    Strip(IF Contains(FenceJson, text)
          THEN Split(Split(text, FenceJson)[2], Fence)[1]
          ELSE IF Contains(Fence, text)
               THEN LET parts == Split(text, Fence)
                    IN  IF Len(parts) >= 2 THEN parts[2] ELSE text
               ELSE text)

\* the first brace at or after i; 0 when there is none
NextBrace(s, i) ==
    LET at == {j \in i..Len(s) : s[j] \in {"{", "}"}}
    IN  IF at = {} THEN 0 ELSE Min(at)
\* line 125, the pattern \{[^{}]*(?:\{[^{}]*\}[^{}]*)*\} : where the match
\* that has consumed s up to i - 1 ends; 0 when it fails
RECURSIVE RegexTail(_, _)
RegexTail(s, i) ==
    LET b == NextBrace(s, i)
    IN  IF b = 0 THEN 0
        ELSE IF s[b] = "}" THEN b
        ELSE LET c == NextBrace(s, b + 1)
             IN  IF c = 0 \/ s[c] # "}" THEN 0 ELSE RegexTail(s, c + 1)
RegexMatchEnd(s, i) == IF CharAt(s, i) = "{" THEN RegexTail(s, i + 1) ELSE 0
\* re.search: the leftmost match, as [found, group]
re_search(s) ==
    LET starts == {i \in DOMAIN s : RegexMatchEnd(s, i) # 0}
    IN  IF starts = {} THEN [found |-> FALSE, group |-> <<>>]
        ELSE [found |-> TRUE,
              group |-> SubSeq(s, Min(starts), RegexMatchEnd(s, Min(starts)))]

\* lines 144-150: the position at or after j where the brace depth returns to
\* zero; 0 when it never does
RECURSIVE BalancedEnd(_, _, _)
BalancedEnd(s, j, depth) ==
    IF j > Len(s) THEN 0
    ELSE IF s[j] = "{" THEN BalancedEnd(s, j + 1, depth + 1)
    ELSE IF s[j] = "}"
         THEN IF depth - 1 = 0 THEN j ELSE BalancedEnd(s, j + 1, depth - 1)
    ELSE BalancedEnd(s, j + 1, depth)
\* the balanced span that starts at i
BalancedSpan(s, i) == SubSeq(s, i, BalancedEnd(s, i, 0))
\* the parse of the first of the spans
FirstSpan(s, spans) ==
    IF spans = {} THEN Raise(ErrorOf("JSONDecodeError", "not JSON"))
    ELSE json_loads(BalancedSpan(s, Min(spans)))
\* lines 142-154: the first balanced span that parses
BalancedScan(s) ==
    FirstSpan(s, {i \in DOMAIN s : /\ s[i] = "{" /\ BalancedEnd(s, i, 0) # 0
                                   /\ json_loads(BalancedSpan(s, i)).ok})

Extracted(value, via) == [ok |-> TRUE, value |-> value, via |-> via]
\* lines 125-131: the parse of the pattern's match
MatchedJson(json_match) ==
    IF json_match.found THEN json_loads(json_match.group)
    ELSE Raise(ErrorOf("JSONDecodeError", "not JSON"))
\* lines 134-140: the parse of the span from the first { to the last }
SpanJson(text, start, end) ==
    IF start # 0 /\ end # 0 /\ end > start THEN json_loads(SubSeq(text, start, end))
    ELSE Raise(ErrorOf("JSONDecodeError", "not JSON"))
\* the strategies in the order the code tries them; via names the strategy
\* that produced the value
Layered(direct, matched, span, scanned) ==
    CASE direct.ok -> Extracted(direct.value, "direct")
      [] ~direct.ok /\ matched.ok -> Extracted(matched.value, "regex")
      [] ~direct.ok /\ ~matched.ok /\ span.ok -> Extracted(span.value, "span")
      [] ~direct.ok /\ ~matched.ok /\ ~span.ok /\ scanned.ok ->
            Extracted(scanned.value, "scan")
      [] OTHER -> [ok |-> FALSE, value |-> None, via |-> "none"]
\* lines 118-154 on the cleaned text
ExtractText(text) ==
    Layered(json_loads(text), MatchedJson(re_search(text)),
            SpanJson(text, Find(<<"{">>, text), RFind(<<"}">>, text)),
            BalancedScan(text))
\* the layered strategy applied to the response
ExtractJson(response) == ExtractText(CleanResponse(response))

\* line 156 when no strategy produced a value
JsonOutcome(e) ==
    IF e.ok THEN Ok(e.value)
    ELSE Raise(ValueErrorOf("Could not parse JSON from response"))
generate_json(text) == JsonOutcome(ExtractJson(text.chars))

(***************************************************************************)
(* LLMProvider.generate                                                    *)
(***************************************************************************)
\* invoked, raised and slept record what this call has done so far: the number
\* of backend invocations, the messages of the faults the backend raised and
\* the sleeps taken, in order; answered holds the texts the backend returned
GenIdle == [pc |-> "idle", max_retries |-> 0, attempt |-> 0, wait_time |-> 0,
            text |-> None, fault |-> NoFault, invoked |-> 0, raised |-> <<>>,
            slept |-> <<>>, answered |-> <<>>]
GenCall(max_retries) == [GenIdle EXCEPT !.pc = "loop", !.max_retries = max_retries]

\* the retry test counting the final attempt as one that can be retried
AttemptsRemainAfterLast(attempt, max_retries) == attempt < max_retries

\* generate, line 88: attempt < max_retries - 1
AttemptsRemain(attempt, max_retries) == attempt < max_retries - 1

\* generate, lines 71-98, up to the next sleep, return or raise: the mock
\* short-cut, one backend invocation with its except clause, or the raise
\* that follows the loop
GenAttempt ==
    /\ gen.pc = "loop"
    /\ IF mock_mode
       THEN /\ gen' = [gen EXCEPT !.pc = "returned", !.text = MockText]
            /\ UNCHANGED <<invocations, fault_budget, logged>>
       ELSE IF gen.attempt >= gen.max_retries
       THEN /\ gen' = [gen EXCEPT !.pc = "raised", !.fault = RetriesExhausted]
            /\ UNCHANGED <<invocations, fault_budget, logged>>
       ELSE /\ invocations' = invocations + 1
            /\ \/ \E text \in Texts :
                    /\ gen' = [gen EXCEPT !.pc = "returned", !.text = text,
                                          !.invoked = @ + 1,
                                          !.answered = Append(@, text)]
                    /\ UNCHANGED <<fault_budget, logged>>
               \/ \E msg \in BackendMessages :
                    /\ fault_budget > 0
                    /\ fault_budget' = fault_budget - 1
                    /\ IF IsThrottling(msg) /\ AttemptsRemain(gen.attempt, gen.max_retries)
                       THEN /\ gen' = [gen EXCEPT !.pc = "sleep",
                                          !.wait_time = BACKOFF_UNIT * (gen.attempt + 1),
                                          !.invoked = @ + 1, !.raised = Append(@, msg)]
                            /\ Emit(<<warning("LLMProvider", "Rate limited")>>)
                       ELSE /\ gen' = [gen EXCEPT !.pc = "raised", !.fault = BackendFault(msg),
                                          !.invoked = @ + 1, !.raised = Append(@, msg)]
                            /\ Emit(<<error("LLMProvider", BackendFault(msg))>>)
    /\ UNCHANGED <<agent_status, agent_results, execution_log, stack, co, now,
                   sleeps, runs, mock_mode, client>>

\* GenSleep with the attempt index left as it was
GenSleepSameAttempt ==
    /\ gen.pc = "sleep"
    /\ sleeps' = Append(sleeps, [by |-> "generate", secs |-> gen.wait_time])
    /\ now' = now + gen.wait_time
    /\ gen' = [gen EXCEPT !.pc = "loop", !.slept = Append(@, gen.wait_time)]
    /\ UNCHANGED <<agent_status, agent_results, execution_log, logged, stack, co,
                   invocations, fault_budget, runs, mock_mode, client>>

\* generate, lines 92-93: time.sleep(wait_time); continue
GenSleep ==
    /\ gen.pc = "sleep"
    /\ sleeps' = Append(sleeps, [by |-> "generate", secs |-> gen.wait_time])
    /\ now' = now + gen.wait_time
    /\ gen' = [gen EXCEPT !.pc = "loop", !.attempt = gen.attempt + 1,
                          !.slept = Append(@, gen.wait_time)]
    /\ UNCHANGED <<agent_status, agent_results, execution_log, logged, stack, co,
                   invocations, fault_budget, runs, mock_mode, client>>

(***************************************************************************)
(* Worker agents: execute                                                  *)
(***************************************************************************)
AttributeError(why) == ErrorOf("AttributeError", why)
ValidationError(why) == ErrorOf("ValidationError", why)

\* dict.get(key) on a mapping built by the pipeline
Get(d, key) == IF HasKey(d, key) THEN d[key] ELSE None

\* ProductData(**mapping)
ProductDataCtor(d) ==
    IF RequiredFields \subseteq d.keys THEN Ok(ProductDataOf(d.product_name))
    ELSE Raise(ValidationError("ProductData: field required"))

\* DataExtractionAgent.execute
data_extractor_execute(input_data) ==
    LET r == ProductDataCtor(input_data)
    IN  IF r.ok THEN r
        ELSE Raise(ValueErrorOf("Input data validation failed"))

ExecDataExtractor ==
    /\ Active /\ Top.pos = "execute" /\ Top.agent = DataExtractor
    /\ stack' = SetTop(FinishExecute([Top EXCEPT !.called = Append(@, "execute")],
                                     data_extractor_execute(Top.input_data)))
    /\ UNCHANGED <<agent_status, agent_results, execution_log, logged, co, gen, now,
                   sleeps, invocations, fault_budget, runs, mock_mode, client>>

\* categorized questions: a mapping category -> list; count is the total
\* number of list elements, items tells whether the elements are mappings
QuestionsOf(count, items) ==
    [t |-> "dict", kind |-> "questions", size |-> IF count = 0 THEN 0 ELSE 1,
     count |-> count, items |-> items]
\* _mock_questions: 5 categories of 3 questions
MockQuestions == QuestionsOf(15, "dict")

\* QuestionGeneratorAgent.execute, lines 72-78, given generate_json's outcome
question_generator_finish(r) ==
    IF ~r.ok THEN r
    ELSE LET questions == r.value
         IN  CASE questions.t # "dict" ->
                     Raise(AttributeError("object has no attribute 'values'"))
               [] KindOf(questions) = "full" -> Ok(QuestionsOf(15, "dict"))
               [] KindOf(questions) = "short" -> Ok(QuestionsOf(3, "dict"))
               [] KindOf(questions) = "other" -> Ok(QuestionsOf(7, "str"))
               [] OTHER -> Ok(QuestionsOf(0, "dict"))

\* ProductCreatorAgent.execute, lines 51-89, given generate_json's outcome:
\* any fault of the backend call or of the conversion is caught and replaced
\* by the mock product
product_creator_finish(r, product_a) ==
    LET built ==
            IF ~r.ok THEN r
            ELSE CASE r.value.t # "dict" ->
                         Raise(AttributeError("object has no attribute 'items'"))
                   [] KindOf(r.value) = "full" -> Ok(ProductDataOf("CompetitorX"))
                   [] KindOf(r.value) = "short" -> Ok(ProductDataOf(product_a.product_name))
                   [] OTHER -> Raise(ValidationError("ProductData: field required"))
    IN  IF built.ok THEN built ELSE Ok(MockProductB)

(***************************************************************************)
(* Pages. Text fields are kept as their lengths, lists as their sizes:     *)
(* that is all the validator and the coordinator read of them.             *)
(***************************************************************************)
FAQPageOf(n) == [t |-> "FAQPage", faqs |-> n]
ProductPageOf(tagline, description, key_benefits, specifications, usage_guide) ==
    [t |-> "ProductPage", tagline |-> tagline, description |-> description,
     key_benefits |-> key_benefits, specifications |-> specifications,
     usage_guide |-> usage_guide]
ComparisonPageOf(a, b, summary, verdict) ==
    [t |-> "ComparisonPage", product_a_name |-> a, product_b_name |-> b,
     summary |-> summary, comparison_table |-> 4, verdict |-> verdict]

\* _mock_faq_extended: 15 items
MockFAQ == FAQPageOf(15)
\* _mock_product_page
MockProductPage == ProductPageOf(40, 80, 2, 3, 26)
\* _mock_comparison_page
MockComparisonPage(a, b) == ComparisonPageOf(a.product_name, b.product_name, 40, 60)

TaskDict(task, data) == [t |-> "dict", keys |-> {"task", "data"}, task |-> task, data |-> data]
FaqTaskDict(data, questions) ==
    [t |-> "dict", keys |-> {"task", "data", "questions"}, task |-> "faq",
     data |-> data, questions |-> questions]
ProductPair(a, b) == [t |-> "dict", keys |-> {"product_a", "product_b"},
                      product_a |-> a, product_b |-> b]
PagesDict(faq, product_page, comparison) ==
    [t |-> "dict", keys |-> {"faq", "product_page", "comparison"},
     faq |-> faq, product_page |-> product_page, comparison |-> comparison]

\* input_data.get('task') as a string; "?" stands for None
TaskOf(input_data) ==
    IF IsDict(input_data) /\ HasKey(input_data, "task") THEN input_data.task ELSE "?"

\* ContentGenerationAgent.execute up to the backend call: Ok/Raise when the
\* task finishes without the backend, NeedsLLM when it calls generate_json
content_generator_begin(input_data, mock) ==
    IF ~IsDict(input_data)
    THEN Raise(AttributeError("object has no attribute 'get'"))
    ELSE LET task == TaskOf(input_data)
             data == Get(input_data, "data")
             questions == Get(input_data, "questions")
             NoProduct == Raise(AttributeError("object has no attribute 'product_name'"))
         IN  IF task \notin {"faq", "faq_extended", "product_page", "comparison"}
             THEN Raise(ValueErrorOf("Unknown task"))
             ELSE IF task = "comparison"
             THEN IF ~(IsDict(data) /\ HasKey(data, "product_a") /\ HasKey(data, "product_b"))
                  THEN Raise(ErrorOf("KeyError", "product_a"))
                  ELSE IF ~(IsProductData(data.product_a) /\ IsProductData(data.product_b))
                  THEN NoProduct
                  ELSE IF mock THEN Ok(MockComparisonPage(data.product_a, data.product_b))
                  ELSE NeedsLLM
             ELSE IF ~IsProductData(data) THEN NoProduct
             ELSE IF mock
                  THEN IF task = "product_page" THEN Ok(MockProductPage) ELSE Ok(MockFAQ)
             ELSE IF task = "faq" /\ Truthy(questions)
                  THEN \* generate_faq, lines 139-153: one FAQItem per question
                       IF questions.t = "dict" /\ "items" \in DOMAIN questions
                          /\ questions.items = "dict"
                       THEN Ok(FAQPageOf(questions.count))
                       ELSE Raise(AttributeError("object has no attribute 'get'"))
             ELSE NeedsLLM

\* ContentGenerationAgent: the rest of the task, given generate_json's outcome
content_generator_finish(input_data, r) ==
    LET task == input_data.task
        data == input_data.data
    IN  IF ~r.ok THEN r
        ELSE IF r.value.t # "dict"
        THEN Raise(AttributeError("object has no attribute 'get'"))
        ELSE LET kind == KindOf(r.value)
             IN  CASE task \in {"faq", "faq_extended"} ->
                        Ok(FAQPageOf(CASE kind = "full" -> 15 [] kind = "short" -> 3
                                       [] OTHER -> 0))
                   [] task = "product_page" ->
                        CASE kind = "full" -> Ok(ProductPageOf(30, 60, 3, 3, 20))
                          [] kind = "short" -> Ok(ProductPageOf(3, 10, 1, 1, 0))
                          [] OTHER -> Raise(ValidationError("ProductPage: field required"))
                   [] OTHER ->
                        Ok(ComparisonPageOf(data.product_a.product_name,
                                            data.product_b.product_name,
                                            CASE kind = "full" -> 50 [] kind = "short" -> 5
                                              [] OTHER -> 0,
                                            CASE kind = "full" -> 40 [] kind = "short" -> 5
                                              [] OTHER -> 0))

(***************************************************************************)
(* QualityValidationAgent.execute                                          *)
(***************************************************************************)
SeqIf(cond, x) == IF cond THEN <<x>> ELSE <<>>

\* ReportStatus with a warning failing the report as an error does
ReportStatusStrict(errors, warnings) ==
    IF errors = <<>> /\ warnings = <<>> THEN "PASSED" ELSE "FAILED"

\* line 116: the status of the report
ReportStatus(errors, warnings) == IF errors = <<>> THEN "PASSED" ELSE "FAILED"

\* lines 37-133: the report on the three pages
ValidationReport(input_data) ==
    LET faq == Get(input_data, "faq")
        product_page == Get(input_data, "product_page")
        comparison == Get(input_data, "comparison")
        isFaq == faq.t = "FAQPage"
        isPage == product_page.t = "ProductPage"
        isCmp == comparison.t = "ComparisonPage"
        errors ==
            (IF ~isFaq THEN <<"FAQ content is not a valid FAQPage object">>
             ELSE SeqIf(faq.faqs < MIN_FAQ_ITEMS, "FAQ has too few items"))
            \o
            (IF ~isPage THEN <<"Product Page content is not a valid ProductPage object">>
             ELSE SeqIf(product_page.tagline < 5, "Tagline is missing or too short")
                  \o SeqIf(product_page.key_benefits < MIN_BENEFITS, "Too few key benefits"))
            \o
            (IF ~isCmp THEN <<"Comparison content is not a valid ComparisonPage object">>
             ELSE SeqIf(comparison.comparison_table < MIN_COMPARISON_ROWS,
                        "Comparison has too few rows")
                  \o SeqIf(comparison.verdict < 10, "Verdict is missing or too short")
                  \o SeqIf(comparison.product_a_name = comparison.product_b_name,
                           "Product A and B have the same name"))
        warnings ==
            (IF ~isFaq THEN <<>>
             ELSE SeqIf(faq.faqs >= MIN_FAQ_ITEMS /\ faq.faqs < 20,
                        "FAQ is good, but 20+ is excellent"))
            \o
            (IF ~isPage THEN <<>>
             ELSE SeqIf(product_page.description < 20, "Description is missing or too short")
                  \o SeqIf(product_page.specifications < 2, "Less than 2 specifications listed")
                  \o SeqIf(product_page.usage_guide = 0, "Usage guide is empty"))
            \o
            (IF ~isCmp THEN <<>>
             ELSE SeqIf(comparison.summary = 0, "Comparison summary is empty"))
        status == ReportStatus(errors, warnings)
    IN  [t |-> "dict", keys |-> {"status", "errors", "warnings", "stats"},
         status |-> status, errors |-> errors, warnings |-> warnings,
         stats |-> [faq_count |-> IF isFaq THEN faq.faqs ELSE 0,
                    benefits_count |-> IF isPage THEN product_page.key_benefits ELSE 0,
                    comparison_rows |-> IF isCmp THEN comparison.comparison_table ELSE 0]]

\* quality_validator_execute raising when the report has errors
quality_validator_execute_raising(input_data) ==
    IF ValidationReport(input_data).status = "FAILED"
    THEN Raise(ValueErrorOf("Validation failed"))
    ELSE Ok(ValidationReport(input_data))

\* QualityValidationAgent.execute: the report is returned whatever its status
quality_validator_execute(input_data) == Ok(ValidationReport(input_data))

ExecQualityValidator ==
    /\ Active /\ Top.pos = "execute" /\ Top.agent = QualityValidator
    /\ stack' = SetTop(FinishExecute([Top EXCEPT !.called = Append(@, "execute")],
                                     quality_validator_execute(Top.input_data)))
    /\ UNCHANGED <<agent_status, agent_results, execution_log, logged, co, gen, now,
                   sleeps, invocations, fault_budget, runs, mock_mode, client>>

(***************************************************************************)
(* The agents that use the backend: execute runs up to the generate_json   *)
(* call (pos "llm" while generate is active) and resumes on its outcome.   *)
(***************************************************************************)
LLMAgents == {QuestionGenerator, ProductCreator, ContentGenerator}

\* what execute does before it needs the backend
execute_begin(agent, input_data, mock) ==
    CASE agent = QuestionGenerator -> IF mock THEN Ok(MockQuestions) ELSE NeedsLLM
      [] agent = ProductCreator -> IF mock THEN Ok(MockProductB) ELSE NeedsLLM
      [] OTHER -> content_generator_begin(input_data, mock)

\* what execute makes of the outcome of generate_json
execute_finish(agent, input_data, r) ==
    CASE agent = QuestionGenerator -> question_generator_finish(r)
      [] agent = ProductCreator -> product_creator_finish(r, input_data)
      [] OTHER -> content_generator_finish(input_data, r)

\* execute of QuestionGenerator, ProductCreator, ContentGenerator: entry
ExecBegin ==
    /\ Active /\ Top.pos = "execute" /\ Top.agent \in LLMAgents
    /\ LET b == execute_begin(Top.agent, Top.input_data, mock_mode)
           t == [Top EXCEPT !.called = Append(@, "execute")]
       IN  IF b = NeedsLLM
           THEN /\ stack' = SetTop([t EXCEPT !.pos = "llm"])
                /\ gen' = GenCall(DEFAULT_MAX_RETRIES)
           ELSE /\ stack' = SetTop(FinishExecute(t, b))
                /\ UNCHANGED gen
    /\ UNCHANGED <<agent_status, agent_results, execution_log, logged, co, now,
                   sleeps, invocations, fault_budget, runs, mock_mode, client>>

\* generate_json on each text generate can return
GenerateJsonOf == [text \in Texts \cup {MockText} |-> generate_json(text)]
\* generate_json applied to the outcome of generate
GenerateJsonOutcome == IF gen.pc = "returned" THEN GenerateJsonOf[gen.text] ELSE Raise(gen.fault)

\* execute of QuestionGenerator, ProductCreator, ContentGenerator: after the
\* generate call has returned or raised
ExecResume ==
    /\ Active /\ Top.pos = "llm" /\ gen.pc \in {"returned", "raised"}
    /\ LET r == GenerateJsonOutcome
       IN  stack' = SetTop(FinishExecute(
                               [Top EXCEPT !.llm_fault = IF r.ok THEN NoFault ELSE r.fault],
                               execute_finish(Top.agent, Top.input_data, r)))
    /\ gen' = GenIdle
    /\ UNCHANGED <<agent_status, agent_results, execution_log, logged, co, now,
                   sleeps, invocations, fault_budget, runs, mock_mode, client>>

(***************************************************************************)
(* CoordinatorAgent.execute                                                *)
(***************************************************************************)
Unbound == [t |-> "unbound"]

\* StepAgent with steps 2 and 3 exchanged
StepAgentSwapped(n) ==
    CASE n = 1 -> DataExtractor [] n = 2 -> ProductCreator [] n = 3 -> QuestionGenerator
      [] n = 7 -> QualityValidator [] OTHER -> ContentGenerator

Steps == 1..7
\* the agent whose run the coordinator calls at step n
StepAgent(n) ==
    CASE n = 1 -> DataExtractor [] n = 2 -> QuestionGenerator [] n = 3 -> ProductCreator
      [] n = 7 -> QualityValidator [] OTHER -> ContentGenerator

CoIdle == [pc |-> "idle", step |-> 0, product_a |-> Unbound,
           categorized_questions |-> Unbound, total_questions |-> Unbound,
           product_b |-> Unbound, faq_page |-> Unbound, product_page |-> Unbound,
           comparison_page |-> Unbound, validation |-> Unbound]

\* the argument the coordinator passes to the run of step n
StepInput(n) ==
    CASE n = 1 -> stack[1].input_data
      [] n = 2 -> co.product_a
      [] n = 3 -> co.product_a
      [] n = 4 -> IF Truthy(co.categorized_questions)
                  THEN FaqTaskDict(co.product_a, co.categorized_questions)
                  ELSE TaskDict("faq_extended", co.product_a)
      [] n = 5 -> TaskDict("product_page", co.product_a)
      [] n = 6 -> TaskDict("comparison", ProductPair(co.product_a, co.product_b))
      [] OTHER -> PagesDict(co.faq_page, co.product_page, co.comparison_page)

\* the coordinator's own run is the only active call
CoTop == Len(stack) = 1 /\ Top.agent = Coordinator /\ Top.pos = "execute"
\* a step's run, called by the coordinator, is the innermost active call
InStep == Len(stack) = 2 /\ stack[1].agent = Coordinator

\* execute, lines 65-77: entry
CoExecute ==
    /\ CoTop /\ co.pc = "idle"
    /\ stack' = SetTop([Top EXCEPT !.called = Append(@, "execute")])
    /\ co' = [co EXCEPT !.pc = "call", !.step = 1]
    /\ UNCHANGED <<agent_status, agent_results, execution_log, logged, gen, now,
                   sleeps, invocations, fault_budget, runs, mock_mode, client>>

\* the call <agent>.run(...) of the current step
CoCall ==
    /\ CoTop /\ co.pc = "call"
    /\ stack' = Append(stack, Frame(StepAgent(co.step), StepInput(co.step), co.step))
    /\ runs' = [runs EXCEPT ![co.step] = @ + 1]
    /\ co' = [co EXCEPT !.pc = "await"]
    /\ UNCHANGED <<agent_status, agent_results, execution_log, logged, gen, now,
                   sleeps, invocations, fault_budget, mock_mode, client>>

\* the step's run returned: bind its value and move on
CoReturn ==
    /\ InStep /\ Top.pos = "returned" /\ co.pc = "await"
    /\ LET v == Top.formatted_result
           n == co.step
       IN  co' = CASE n = 1 -> [co EXCEPT !.product_a = v, !.pc = "call", !.step = 2]
                   [] n = 2 -> [co EXCEPT !.categorized_questions = v,
                                          !.total_questions = IntOf(v.count),
                                          !.pc = "wait"]
                   [] n = 3 -> [co EXCEPT !.product_b = v, !.pc = "wait"]
                   [] n = 4 -> [co EXCEPT !.faq_page = v, !.pc = "wait"]
                   [] n = 5 -> [co EXCEPT !.product_page = v, !.pc = "wait"]
                   [] n = 6 -> [co EXCEPT !.comparison_page = v, !.pc = "call", !.step = 7]
                   [] OTHER -> [co EXCEPT !.validation = v, !.pc = "finish"]
    /\ stack' = SubSeq(stack, 1, 1)
    /\ UNCHANGED <<agent_status, agent_results, execution_log, logged, gen, now,
                   sleeps, invocations, fault_budget, runs, mock_mode, client>>

\* CoRaise with the except clause of lines 92-94 wrapped around every later
\* step as well
CoRaiseCatchAll ==
    /\ InStep /\ Top.pos = "raised" /\ co.pc = "await"
    /\ IF co.step \in 2..5
       THEN /\ Emit(<<warning(Coordinator, "step failed")>>)
            /\ co' = [co EXCEPT !.categorized_questions = None, !.pc = "wait"]
            /\ stack' = SubSeq(stack, 1, 1)
       ELSE /\ co' = [co EXCEPT !.pc = "raised"]
            /\ stack' = <<[stack[1] EXCEPT !.pos = "except", !.fault = Top.fault]>>
            /\ UNCHANGED logged
    /\ UNCHANGED <<agent_status, agent_results, execution_log, gen, now,
                   sleeps, invocations, fault_budget, runs, mock_mode, client>>

\* CoRaise without the except clause of lines 92-94
CoRaiseNoCatch ==
    /\ InStep /\ Top.pos = "raised" /\ co.pc = "await"
    /\ co' = [co EXCEPT !.pc = "raised"]
    /\ stack' = <<[stack[1] EXCEPT !.pos = "except", !.fault = Top.fault]>>
    /\ UNCHANGED <<agent_status, agent_results, execution_log, logged, gen, now,
                   sleeps, invocations, fault_budget, runs, mock_mode, client>>

\* the step's run raised: lines 92-94 catch it for step 2 only; from any
\* other step the fault leaves execute
CoRaise ==
    /\ InStep /\ Top.pos = "raised" /\ co.pc = "await"
    /\ IF co.step = 2
       THEN /\ Emit(<<warning(Coordinator, "Question generation failed, will use extended FAQ")>>)
            /\ co' = [co EXCEPT !.categorized_questions = None, !.pc = "wait"]
            /\ stack' = SubSeq(stack, 1, 1)
       ELSE /\ co' = [co EXCEPT !.pc = "raised"]
            /\ stack' = <<[stack[1] EXCEPT !.pos = "except", !.fault = Top.fault]>>
            /\ UNCHANGED logged
    /\ UNCHANGED <<agent_status, agent_results, execution_log, gen, now,
                   sleeps, invocations, fault_budget, runs, mock_mode, client>>

\* CoWait without the sleep
CoWaitSkipped ==
    /\ CoTop /\ co.pc = "wait"
    /\ co' = [co EXCEPT !.pc = "call", !.step = co.step + 1]
    /\ UNCHANGED <<agent_status, agent_results, execution_log, logged, stack, gen,
                   now, sleeps, invocations, fault_budget, runs, mock_mode, client>>

\* wait(), lines 68-70: time.sleep(5) after steps 2, 3, 4 and 5
CoWait ==
    /\ CoTop /\ co.pc = "wait"
    /\ sleeps' = Append(sleeps, [by |-> "wait", secs |-> WAIT_SECONDS, after |-> co.step])
    /\ now' = now + WAIT_SECONDS
    /\ co' = [co EXCEPT !.pc = "call", !.step = co.step + 1]
    /\ UNCHANGED <<agent_status, agent_results, execution_log, logged, stack, gen,
                   invocations, fault_budget, runs, mock_mode, client>>

\* execute, lines 168-183: the returned mapping
CoFinish ==
    /\ CoTop /\ co.pc = "finish"
    /\ stack' = SetTop(FinishExecute(Top,
            Ok([t |-> "dict",
                keys |-> {"faq_page", "product_page", "comparison_page", "validation", "metadata"},
                faq_page |-> co.faq_page, product_page |-> co.product_page,
                comparison_page |-> co.comparison_page, validation |-> co.validation,
                metadata |-> [faq_count |-> co.faq_page.faqs,
                              product_a |-> co.product_a.product_name,
                              product_b |-> co.product_b.product_name,
                              questions_generated |->
                                  IF Truthy(co.categorized_questions)
                                  THEN co.total_questions ELSE StrOf("extended"),
                              api_calls |-> API_CALLS]])))
    /\ co' = [co EXCEPT !.pc = "done"]
    /\ UNCHANGED <<agent_status, agent_results, execution_log, logged, gen, now,
                   sleeps, invocations, fault_budget, runs, mock_mode, client>>

(***************************************************************************)
(* The StateManager driven directly through its public methods, as a test  *)
(* or any other client drives it: one action per method call. calls keeps  *)
(* the calls made and what each returned.                                  *)
(***************************************************************************)
\* agent names, keys and values the client uses
StoreNames == {DataExtractor, ContentGenerator}
StoreKeys == {"product", "pages"}
StoreValues == {None, IntOf(1)}

\* what the StateManager's methods never touch
pipeline == <<logged, stack, co, gen, now, sleeps, invocations, fault_budget, runs, mock_mode>>

Called(c) == calls' = Append(calls, c)

\* start_workflow
SmStartWorkflow ==
    /\ Len(calls) < MaxCalls
    /\ workflow_start' = IntOf(now)
    /\ _log_event("workflow_started", [timestamp |-> now])
    /\ Called([op |-> "start_workflow"])
    /\ UNCHANGED <<agent_status, agent_results, state, workflow_end, pipeline>>

\* end_workflow: the completion event is logged only when a start was recorded
SmEndWorkflow ==
    /\ Len(calls) < MaxCalls
    /\ workflow_end' = IntOf(now)
    /\ IF workflow_start # None
       THEN _log_event("workflow_completed",
                       [timestamp |-> now, duration_seconds |-> now - workflow_start.v])
       ELSE UNCHANGED execution_log
    /\ Called([op |-> "end_workflow"])
    /\ UNCHANGED <<agent_status, agent_results, state, workflow_start, pipeline>>

SmSetAgentStatus ==
    /\ Len(calls) < MaxCalls
    /\ \E agent_name \in StoreNames, status \in AgentStatus :
          /\ set_agent_status(agent_name, status)
          /\ Called([op |-> "set_agent_status", agent |-> agent_name, status |-> status])
    /\ UNCHANGED <<agent_results, state, workflow_start, workflow_end, pipeline>>

\* SmGetAgentStatus reading with dict.setdefault in place of dict.get
SmGetAgentStatusSetDefault ==
    /\ Len(calls) < MaxCalls
    /\ \E agent_name \in StoreNames :
          /\ agent_status' = DictSet(agent_status, agent_name, get_agent_status(agent_name))
          /\ Called([op |-> "get_agent_status", agent |-> agent_name,
                     ret_status |-> get_agent_status(agent_name)])
    /\ UNCHANGED <<agent_results, execution_log, state, workflow_start,
                   workflow_end, pipeline>>

SmGetAgentStatus ==
    /\ Len(calls) < MaxCalls
    /\ \E agent_name \in StoreNames :
          Called([op |-> "get_agent_status", agent |-> agent_name,
                  ret_status |-> get_agent_status(agent_name)])
    /\ UNCHANGED <<agent_status, agent_results, execution_log, state, workflow_start,
                   workflow_end, pipeline>>

SmSetAgentResult ==
    /\ Len(calls) < MaxCalls
    /\ \E agent_name \in StoreNames, result \in StoreValues :
          /\ set_agent_result(agent_name, result)
          /\ Called([op |-> "set_agent_result", agent |-> agent_name, result |-> result])
    /\ UNCHANGED <<agent_status, state, workflow_start, workflow_end, pipeline>>

SmGetAgentResult ==
    /\ Len(calls) < MaxCalls
    /\ \E agent_name \in StoreNames :
          Called([op |-> "get_agent_result", agent |-> agent_name,
                  ret |-> get_agent_result(agent_name)])
    /\ UNCHANGED <<agent_status, agent_results, execution_log, state, workflow_start,
                   workflow_end, pipeline>>

\* set(key, value): no event is logged
SmSet ==
    /\ Len(calls) < MaxCalls
    /\ \E key \in StoreKeys, value \in StoreValues :
          /\ state' = DictSet(state, key, value)
          /\ Called([op |-> "set", key |-> key, value |-> value])
    /\ UNCHANGED <<agent_status, agent_results, execution_log, workflow_start,
                   workflow_end, pipeline>>

\* get_execution_log: a copy of the log
SmGetExecutionLog ==
    /\ Len(calls) < MaxCalls
    /\ Called([op |-> "get_execution_log", ret_log |-> execution_log])
    /\ UNCHANGED <<agent_status, agent_results, execution_log, state, workflow_start,
                   workflow_end, pipeline>>

\* clear
SmClear ==
    /\ Len(calls) < MaxCalls
    /\ state' = EmptyDict
    /\ agent_status' = EmptyDict
    /\ agent_results' = EmptyDict
    /\ execution_log' = <<>>
    /\ workflow_start' = None
    /\ workflow_end' = None
    /\ Called([op |-> "clear"])
    /\ UNCHANGED pipeline

(***************************************************************************)
(* Specifications                                                          *)
(***************************************************************************)
\* what main can hand to coordinator.run: the result of json.load
RunInputs == {None, RawList, RawProduct, RawIncomplete}

InitStore ==
    /\ agent_status = EmptyDict
    /\ agent_results = EmptyDict
    /\ execution_log = <<>>
    /\ logged = <<>>
    /\ co = CoIdle
    /\ now = 0
    /\ sleeps = <<>>
    /\ invocations = 0
    /\ runs = [n \in Steps |-> 0]
    /\ mock_mode \in BOOLEAN
    /\ state = EmptyDict
    /\ workflow_start = None
    /\ workflow_end = None
    /\ calls = <<>>

\* main: a fresh StateManager and one coordinator.run(input_data)
Init ==
    /\ InitStore
    /\ \E input_data \in RunInputs : stack = <<Frame(Coordinator, input_data, 0)>>
    /\ gen = GenIdle
    /\ fault_budget = MaxFaults

Next ==
    \/ RunStart \/ RunValidate \/ RunFormat \/ RunStore \/ RunComplete \/ RunExcept
    \/ ExecDataExtractor \/ ExecQualityValidator \/ ExecBegin \/ ExecResume
    \/ GenAttempt \/ GenSleep
    \/ CoExecute \/ CoCall \/ CoReturn \/ CoRaise \/ CoWait \/ CoFinish

Spec == Init /\ [][Next]_vars


(***************************************************************************)
(* One BaseAgent.run call of any agent on any input, as a unit test of an  *)
(* agent drives it.                                                        *)
(***************************************************************************)
UnitInputs ==
    RunInputs \cup
    { ProductA,
      TaskDict("faq_extended", ProductA),
      FaqTaskDict(ProductA, MockQuestions),
      TaskDict("product_page", ProductA),
      TaskDict("comparison", ProductPair(ProductA, MockProductB)),
      TaskDict("summary", ProductA),
      PagesDict(MockFAQ, MockProductPage, MockComparisonPage(ProductA, MockProductB)),
      [t |-> "dict", keys |-> {"faq", "product_page"}, faq |-> MockFAQ,
       product_page |-> MockProductPage] }

InitAgent ==
    /\ InitStore
    /\ \E agent \in Agents, input_data \in UnitInputs :
           stack = <<Frame(agent, input_data, 0)>>
    /\ gen = GenIdle
    /\ fault_budget = MaxFaults

SpecAgent == InitAgent /\ [][Next]_vars

(***************************************************************************)
(* One LLMProvider.generate(prompt, max_retries) call on its own.          *)
(***************************************************************************)
InitGen ==
    /\ InitStore
    /\ stack = <<>>
    /\ \E max_retries \in 0..MaxRetriesBound : gen = GenCall(max_retries)
    /\ fault_budget = MaxRetriesBound

NextGen == GenAttempt \/ GenSleep

SpecGen == InitGen /\ [][NextGen]_vars

(***************************************************************************)
(* Reading the execution log and the logger's records                      *)
(***************************************************************************)
IsStatusEvent(e, agent_name) ==
    e.event_type = "agent_status_change" /\ e.data.agent = agent_name
\* the statuses recorded for agent_name, in log order
StatusHistory(agent_name) ==
    LET evs == SelectSeq(execution_log, LAMBDA e : IsStatusEvent(e, agent_name))
    IN  [i \in 1..Len(evs) |-> evs[i].data.status]
\* the events of the log that name agent_name
EventsNaming(agent_name) == SelectSeq(execution_log, LAMBDA e : e.data.agent = agent_name)
Terminal == {COMPLETED, FAILED}

\* positions of the error records the run of agent_name has logged
ErrorsOf(agent_name) ==
    {i \in DOMAIN logged : logged[i].kind = "error" /\ logged[i].agent = agent_name}

(***************************************************************************)
(* C1  When the run of a fatal step (DataExtractor, ProductCreator, a      *)
(* ContentGenerator task, QualityValidator) raises, Coordinator.run raises *)
(* the same fault, no later step's run is invoked, and the execution log   *)
(* has no event naming a step that comes after the failed one: those steps *)
(* still read PENDING.                                                     *)
(***************************************************************************)
FatalWorkers == Workers \ {QuestionGenerator}
FatalErrors == UNION {ErrorsOf(a) : a \in FatalWorkers}
\* the step names that first occur after step n
NamesAfter(n) == {StepAgent(m) : m \in (n + 1)..7} \ {StepAgent(k) : k \in 1..n}

C1_FatalFaultEndsRun ==
    FatalErrors # {} =>
        LET rec == logged[Min(FatalErrors)]
            n == co.step
        IN  /\ StepAgent(n) = rec.agent
            /\ \/ InStep /\ Top.step = n /\ Top.pos = "raised" /\ Top.fault = rec.fault
               \/ /\ Len(stack) = 1 /\ Top.agent = Coordinator
                  /\ Top.pos \in {"except", "raised"} /\ Top.fault = rec.fault
            /\ \A m \in Steps : m > n => runs[m] = 0
            /\ \A a \in NamesAfter(n) :
                  EventsNaming(a) = <<>> /\ get_agent_status(a) = PENDING

C1_Witness ==
    /\ FatalErrors # {} /\ co.step = 5 /\ Len(stack) = 1 /\ Top.pos = "raised"
    /\ get_agent_status(QualityValidator) = PENDING

(***************************************************************************)
(* C2  When QuestionGenerator (step 2) faults, the coordinator catches the *)
(* fault, logs a warning, substitutes absent questions and continues with  *)
(* steps 3-7 on the fallback FAQ path; the run can still end PASSED.       *)
(***************************************************************************)
C2_QuestionFaultAbsorbed ==
    (ErrorsOf(QuestionGenerator) # {} /\ ~(InStep /\ Top.step = 2)) =>
        /\ \E j \in DOMAIN logged :
              /\ j > Max(ErrorsOf(QuestionGenerator))
              /\ logged[j].kind = "warning" /\ logged[j].agent = Coordinator
        /\ co.categorized_questions = None
        /\ (co.step = 2 /\ co.pc = "wait") \/ co.step >= 3
        /\ (InStep /\ Top.step = 4) => TaskOf(Top.input_data) = "faq_extended"
        /\ (Len(stack) = 1 /\ Top.pos \in {"returned", "raised"}) => co.step > 2

C2_Witness ==
    /\ ErrorsOf(QuestionGenerator) # {}
    /\ Len(stack) = 1 /\ Top.pos = "returned"
    /\ runs = [n \in Steps |-> 1]
    /\ Top.formatted_result.validation.status = "PASSED"

(***************************************************************************)
(* C3  A fault raised by the backend client during a step's execute is     *)
(* fatal to that step: it leaves the step's run with status FAILED. No     *)
(* step absorbs it; this holds in particular for ProductCreator.           *)
(***************************************************************************)
C3_BackendFaultFatalToStep ==
    \A i \in DOMAIN stack :
        stack[i].llm_fault # NoFault =>
            /\ stack[i].pos \in {"except", "raised"}
            /\ stack[i].fault = stack[i].llm_fault
            /\ stack[i].pos = "raised" => get_agent_status(stack[i].agent) = FAILED

(***************************************************************************)
(* C4  Once a named step's status is COMPLETED or FAILED, no later         *)
(* set_agent_status call of the run moves it out of that state.            *)
(***************************************************************************)
C4_TerminalStatusIsFinal ==
    [][\A a \in DOMAIN agent_status :
          agent_status[a] \in Terminal => agent_status'[a] = agent_status[a]]_vars

(***************************************************************************)
(* C5  Every COMPLETED or FAILED status event of a step is preceded by a   *)
(* RUNNING status event of that step, with no other terminal event of the  *)
(* step in between.                                                        *)
(***************************************************************************)
C5_RunningPrecedesTerminal ==
    \A a \in Agents :
        LET h == StatusHistory(a)
        IN  \A k \in DOMAIN h : h[k] \in Terminal => (k > 1 /\ h[k - 1] = RUNNING)

C5_Witness ==
    StatusHistory(ContentGenerator) = <<RUNNING, COMPLETED, RUNNING, FAILED>>

(***************************************************************************)
(* C6  BaseAgent.run never masks a fault: when validate_input or execute   *)
(* raises, the call sets the status FAILED, stores no result, emits a      *)
(* 'failed' trace with the elapsed time and re-raises the same fault; it   *)
(* never returns normally.                                                 *)
(***************************************************************************)
\* the events naming agent_name that follow its latest RUNNING status event
SinceRunning(agent_name) ==
    LET evs == EventsNaming(agent_name)
        starts == {k \in DOMAIN evs : evs[k].event_type = "agent_status_change"
                                      /\ evs[k].data.status = RUNNING}
    IN  IF starts = {} THEN evs ELSE SubSeq(evs, Max(starts) + 1, Len(evs))
\* the logger's records about agent_name
RecordsOf(agent_name) == SelectSeq(logged, LAMBDA r : r.agent = agent_name)

C6_RunNeverMasksFault ==
    \A i \in DOMAIN stack :
        LET f == stack[i]
            since == SinceRunning(f.agent)
            recs == RecordsOf(f.agent)
        IN  f.fault # NoFault =>
              /\ f.pos \in {"except", "raised"}
              /\ \A k \in DOMAIN since : since[k].event_type # "agent_result_stored"
              /\ f.pos = "raised" =>
                    /\ get_agent_status(f.agent) = FAILED
                    /\ since = <<[event_type |-> "agent_status_change",
                                  data |-> [agent |-> f.agent, status |-> FAILED,
                                            timestamp |-> now]]>>
                    /\ Len(recs) >= 2
                    /\ recs[Len(recs) - 1] = error(f.agent, f.fault)
                    /\ recs[Len(recs)] = execution_trace(f.agent, "execute", "failed",
                                                         (now - f.start_time) * 1000)

C6_Witness ==
    /\ Len(stack) = 2 /\ Top.agent = ContentGenerator /\ Top.pos = "raised"
    /\ Top.llm_fault # NoFault /\ now > Top.start_time
    /\ ContentGenerator \in DOMAIN agent_results

(***************************************************************************)
(* C7  When validate_input rejects the input, execute and format_output    *)
(* are not called: the status goes RUNNING then FAILED and the fault       *)
(* propagates at once. This holds for the default validator and for every  *)
(* overriding one.                                                         *)
(***************************************************************************)
C7_RejectedInputSkipsExecute ==
    \A i \in DOMAIN stack :
        LET f == stack[i]
            verdict == validate_input(f.agent, f.input_data)
            h == StatusHistory(f.agent)
        IN  (verdict # NoFault /\ f.called # <<>>) =>
              /\ f.called = <<"validate_input">>
              /\ f.pos \in {"except", "raised"}
              /\ f.fault = verdict
              /\ f.pos = "raised" => (Len(h) >= 2 /\ h[Len(h) - 1] = RUNNING
                                      /\ h[Len(h)] = FAILED)

C7_Witness ==
    /\ Len(stack) = 1 /\ Top.agent = QualityValidator /\ Top.pos = "raised"
    /\ IsDict(Top.input_data) /\ ~HasKey(Top.input_data, "comparison")
    /\ Top.called = <<"validate_input">>

(***************************************************************************)
(* C8  On the success path the formatted result is stored before the       *)
(* status becomes COMPLETED and the value returned is the value stored: a  *)
(* step whose status is COMPLETED has a stored result equal to the output  *)
(* of its most recent successful call.                                     *)
(***************************************************************************)
\* the value the coordinator last received from the run of agent_name
LastReturned(agent_name) ==
    CASE agent_name = DataExtractor -> co.product_a
      [] agent_name = QuestionGenerator -> co.categorized_questions
      [] agent_name = ProductCreator -> co.product_b
      [] agent_name = QualityValidator -> co.validation
      [] OTHER -> IF co.comparison_page # Unbound THEN co.comparison_page
                  ELSE IF co.product_page # Unbound THEN co.product_page
                  ELSE co.faq_page

C8_CompletedHasStoredResult ==
    /\ \A a \in Agents :
          LET evs == EventsNaming(a)
          IN  \A k \in DOMAIN evs :
                (evs[k].event_type = "agent_status_change" /\ evs[k].data.status = COMPLETED)
                    => (k > 1 /\ evs[k - 1].event_type = "agent_result_stored")
    /\ \A a \in Agents : get_agent_status(a) = COMPLETED => a \in DOMAIN agent_results
    /\ \A i \in DOMAIN stack :
          stack[i].pos = "returned" =>
              get_agent_result(stack[i].agent) = stack[i].formatted_result
    /\ \A a \in Workers :
          (get_agent_status(a) = COMPLETED /\ ~(InStep /\ Top.agent = a))
              => get_agent_result(a) = LastReturned(a)

C8_Witness ==
    /\ get_agent_status(ContentGenerator) = COMPLETED
    /\ co.comparison_page # Unbound /\ co.faq_page # co.comparison_page
    /\ get_agent_result(ContentGenerator) = co.comparison_page

(***************************************************************************)
(* Backend messages by class, as the claims about generate name them:      *)
(* throttling-class messages contain 'rate', 'quota' or '429' in any case. *)
(***************************************************************************)
ThrottlingMessages == { <<"R","a","t","e">>, <<"Q","U","O","T","A">>, <<"4","2","9">> }
NonThrottlingMessages == BackendMessages \ ThrottlingMessages
\* the generate call is over
GenFinished == gen.pc \in {"returned", "raised"}
\* every backend invocation of the call raised a throttling-class fault
AlwaysThrottled ==
    /\ ~mock_mode /\ Len(gen.raised) = gen.invoked
    /\ \A i \in DOMAIN gen.raised : gen.raised[i] \in ThrottlingMessages
\* the linear backoff 30, 60, ..., 30 * n
Backoff(n) == [k \in 1..n |-> BACKOFF_UNIT * k]

(***************************************************************************)
(* C9  With a backend that raises a throttling-class fault on every        *)
(* invocation, generate(prompt, max_retries) invokes the backend exactly   *)
(* max_retries times, sleeps 30, 60, ..., 30*(max_retries-1) seconds       *)
(* between the attempts, and then raises RetriesExhausted ('failed after   *)
(* max retries'), for every max_retries >= 1.                              *)
(***************************************************************************)
C9_RetryBoundThenExhausted ==
    (GenFinished /\ AlwaysThrottled /\ gen.max_retries >= 1) =>
        /\ gen.invoked = gen.max_retries
        /\ gen.slept = Backoff(gen.max_retries - 1)
        /\ gen.pc = "raised"
        /\ gen.fault = RetriesExhausted

(***************************************************************************)
(* C10  A backend fault that is not throttling-class is propagated by      *)
(* generate at once, at whatever attempt it occurs: no sleep and no        *)
(* further backend invocation follow it.                                   *)
(***************************************************************************)
C10_NonThrottlingPropagates ==
    \A i \in DOMAIN gen.raised :
        gen.raised[i] \in NonThrottlingMessages =>
            /\ i = Len(gen.raised)
            /\ gen.pc = "raised"
            /\ gen.fault = BackendFault(gen.raised[i])
            /\ gen.invoked = i
            /\ gen.attempt = i - 1
            /\ gen.slept = Backoff(i - 1)

C10_Witness ==
    /\ gen.pc = "raised" /\ Len(gen.raised) = 2
    /\ gen.raised[1] \in ThrottlingMessages
    /\ gen.raised[2] \in NonThrottlingMessages
    /\ gen.slept = <<30>>

(***************************************************************************)
(* C11  The coordinator executes the steps strictly in the declared order: *)
(* DataExtractor, QuestionGenerator, ProductCreator, ContentGenerator      *)
(* (FAQ), ContentGenerator (product page), ContentGenerator (comparison),  *)
(* QualityValidator. The RUNNING event of a step is recorded only after    *)
(* the run of the preceding step has recorded COMPLETED or FAILED and has  *)
(* returned or raised; no step runs twice.                                 *)
(***************************************************************************)
DeclaredOrder ==
    <<DataExtractor, QuestionGenerator, ProductCreator, ContentGenerator,
      ContentGenerator, ContentGenerator, QualityValidator>>
\* the status events of the worker agents, in log order
WorkerStatusEvents ==
    SelectSeq(execution_log,
              LAMBDA e : e.event_type = "agent_status_change" /\ e.data.agent \in Workers)

C11_StepsInDeclaredOrder ==
    LET W == WorkerStatusEvents
    IN  /\ Len(W) <= 2 * Len(DeclaredOrder)
        /\ \A k \in DOMAIN W :
              /\ W[k].data.agent = DeclaredOrder[(k + 1) \div 2]
              /\ W[k].data.status \in (IF k % 2 = 1 THEN {RUNNING} ELSE Terminal)
        /\ \A n \in Steps : runs[n] <= 1 /\ ((n > 1 /\ runs[n] = 1) => runs[n - 1] = 1)
        /\ Len(stack) <= 2
        /\ \A n \in Steps :
              (InStep /\ Top.step = n) =>
                  Len(W) = CASE Top.pos = "start" -> 2 * (n - 1)
                             [] Top.pos \in {"returned", "raised"} -> 2 * n
                             [] OTHER -> 2 * n - 1
        /\ Len(W) % 2 = 1 => InStep

C11_Witness ==
    /\ co.pc = "done" /\ Len(WorkerStatusEvents) = 14
    /\ WorkerStatusEvents[4].data.status = FAILED

(***************************************************************************)
(* C12  For every step name, the number of status-change events in the     *)
(* execution log equals the number of distinct status values the step      *)
(* reached: no status is logged twice for one name.                        *)
(***************************************************************************)
C12_OneEventPerDistinctStatus ==
    \A a \in Agents :
        LET h == StatusHistory(a)
        IN  Len(h) = Cardinality({h[k] : k \in DOMAIN h})

(***************************************************************************)
(* Any sequence of StateManager calls on a fresh StateManager.             *)
(***************************************************************************)
InitStoreClient ==
    /\ InitStore
    /\ stack = <<>>
    /\ gen = GenIdle
    /\ fault_budget = MaxFaults

NextStore ==
    \/ SmStartWorkflow \/ SmEndWorkflow \/ SmSetAgentStatus \/ SmGetAgentStatus
    \/ SmSetAgentResult \/ SmGetAgentResult \/ SmSet \/ SmGetExecutionLog \/ SmClear

SpecStore == InitStoreClient /\ [][NextStore]_vars

\* s is a prefix of t
IsPrefix(s, t) == Len(s) <= Len(t) /\ SubSeq(t, 1, Len(s)) = s
\* the positions of the calls of method op
CallsOf(op) == {i \in DOMAIN calls : calls[i].op = op}

(***************************************************************************)
(* C13  The execution log is append-only under every sequence of           *)
(* StateManager calls (clear included): a log returned by an earlier       *)
(* get_execution_log is a prefix of every log returned later and of the    *)
(* current log; no event is removed or edited.                             *)
(***************************************************************************)
C13_LogAppendOnly ==
    \A i \in CallsOf("get_execution_log") :
        /\ IsPrefix(calls[i].ret_log, execution_log)
        /\ \A j \in CallsOf("get_execution_log") :
              i < j => IsPrefix(calls[i].ret_log, calls[j].ret_log)

(***************************************************************************)
(* C14  set_agent_status(step, s) makes get_agent_status(step) return s,   *)
(* appends exactly one status-change event for (step, s) at the end of the *)
(* log, and leaves every other step's status, all stored results, the      *)
(* shared key/value state and all earlier events unchanged; the status     *)
(* events in the log are in the order of the calls.                        *)
(***************************************************************************)
\* the calls made since the latest clear
SinceClear ==
    LET c == CallsOf("clear")
    IN  IF c = {} THEN calls ELSE SubSeq(calls, Max(c) + 1, Len(calls))
\* the (agent, status) pairs of a sequence of set_agent_status calls or events
PairsOfCalls(cs) == [i \in DOMAIN cs |-> <<cs[i].agent, cs[i].status>>]
PairsOfEvents(es) == [i \in DOMAIN es |-> <<es[i].data.agent, es[i].data.status>>]

C14_SetAgentStatusFrame ==
    /\ [][\A a \in StoreNames, s \in AgentStatus :
            calls' = Append(calls, [op |-> "set_agent_status", agent |-> a, status |-> s]) =>
              /\ DictGet(agent_status', a, PENDING) = s
              /\ execution_log' =
                    Append(execution_log,
                           [event_type |-> "agent_status_change",
                            data |-> [agent |-> a, status |-> s, timestamp |-> now]])
              /\ DOMAIN agent_status' = DOMAIN agent_status \cup {a}
              /\ \A b \in DOMAIN agent_status : b # a => agent_status'[b] = agent_status[b]
              /\ UNCHANGED <<agent_results, state>>]_vars
    /\ [](PairsOfEvents(SelectSeq(execution_log,
                                  LAMBDA e : e.event_type = "agent_status_change"))
          = PairsOfCalls(SelectSeq(SinceClear, LAMBDA c : c.op = "set_agent_status")))

C14_Witness ==
    /\ Len(calls) = 3 /\ calls[3].op = "set_agent_status"
    /\ calls[3].agent = ContentGenerator /\ calls[3].status = FAILED
    /\ get_agent_status(DataExtractor) = RUNNING
    /\ Len(execution_log) = 3 /\ DataExtractor \in DOMAIN agent_results

(***************************************************************************)
(* C15  For a name with no status (no result) set, get_agent_status        *)
(* returns PENDING and get_agent_result returns None, without raising;     *)
(* repeated calls return the same defaults and change nothing in the       *)
(* StateManager: statuses, results, shared state and the execution log.    *)
(***************************************************************************)
C15_GettersDefaultAndPure ==
    /\ [][\A a \in StoreNames :
            LET c == calls'[Len(calls')]
            IN  (Len(calls') = Len(calls) + 1 /\ c.op \in {"get_agent_status", "get_agent_result"}
                 /\ c.agent = a) =>
                  /\ (c.op = "get_agent_status" /\ a \notin DOMAIN agent_status)
                        => c.ret_status = PENDING
                  /\ (c.op = "get_agent_result" /\ a \notin DOMAIN agent_results)
                        => c.ret = None
                  /\ UNCHANGED <<agent_status, agent_results, state, execution_log,
                                 workflow_start, workflow_end>>]_vars
    /\ [](\A i \in DOMAIN calls :
            (i > 1 /\ calls[i].op \in {"get_agent_status", "get_agent_result"}
             /\ calls[i - 1].op = calls[i].op /\ calls[i - 1].agent = calls[i].agent)
                => calls[i - 1] = calls[i])

C15_Witness ==
    /\ calls = <<[op |-> "get_agent_status", agent |-> DataExtractor, ret_status |-> PENDING],
                 [op |-> "get_agent_status", agent |-> DataExtractor, ret_status |-> PENDING],
                 [op |-> "get_agent_result", agent |-> DataExtractor, ret |-> None]>>
    /\ agent_status = EmptyDict /\ agent_results = EmptyDict /\ execution_log = <<>>

(***************************************************************************)
(* One generate_json call on a response text, for the texts a backend can  *)
(* answer with: payloads serialized as json.dumps writes them, bare or in  *)
(* a fenced block, with and without prose around, alone or in sequence.    *)
(***************************************************************************)
\* the decimal digits of n
RECURSIVE IntChars(_)
IntChars(n) == IF n < 10 THEN <<Digits[n + 1]>> ELSE IntChars(n \div 10) \o <<Digits[(n % 10) + 1]>>
\* s[1] sep s[2] sep ... s[n]
RECURSIVE Join(_, _)
Join(parts, sep) ==
    IF parts = <<>> THEN <<>>
    ELSE IF Len(parts) = 1 THEN parts[1]
    ELSE parts[1] \o sep \o Join(Tail(parts), sep)
\* json.dumps with its default separators
RECURSIVE dumps(_)
dumps(v) ==
    CASE v.t = "dict" ->
            <<"{">> \o Join([i \in DOMAIN v.pairs |->
                                <<"\"">> \o v.pairs[i].k \o <<"\"", ":", " ">>
                                \o dumps(v.pairs[i].v)], <<",", " ">>) \o <<"}">>
      [] v.t = "list" ->
            <<"[">> \o Join([i \in DOMAIN v.elems |-> dumps(v.elems[i])], <<",", " ">>)
            \o <<"]">>
      [] v.t = "str" -> <<"\"">> \o v.chars \o <<"\"">>
      [] v.t = "int" -> IntChars(v.v)
      [] v.t = "bool" -> IF v.v THEN <<"t", "r", "u", "e">> ELSE <<"f", "a", "l", "s", "e">>
      [] OTHER -> <<"n", "u", "l", "l">>

Item(k, v) == [k |-> k, v |-> v]
\* structured payloads: flat, empty, nested once and twice, with a list, with
\* literals, and with braces or backticks inside a string value
Payloads ==
    { DictOf(<<Item(<<"a">>, IntOf(1))>>),
      DictOf(<<>>),
      DictOf(<<Item(<<"a">>, DictOf(<<Item(<<"b">>, IntOf(1))>>))>>),
      DictOf(<<Item(<<"a">>, DictOf(<<Item(<<"b">>, DictOf(<<Item(<<"c">>, IntOf(1))>>))>>))>>),
      DictOf(<<Item(<<"a">>, ListOf(<<IntOf(1), IntOf(20)>>))>>),
      DictOf(<<Item(<<"a">>, None), Item(<<"b">>, BoolOf(TRUE))>>),
      DictOf(<<Item(<<"a">>, CharsOf(<<"}">>))>>),
      DictOf(<<Item(<<"a">>, CharsOf(<<"{", "{", "}", "}">>))>>),
      DictOf(<<Item(<<"a">>, CharsOf(Fence))>>) }
\* JSON values that are not mappings
NonMappings ==
    { ListOf(<<IntOf(1), IntOf(2)>>), CharsOf(<<"x">>), IntOf(7), BoolOf(FALSE), None }
LeadingProse == { <<>>, <<"H", "e", "r", "e", " ", "y", "o", "u", " ", "g", "o", ":", "\n">>, <<"U", "s", "e", " ", "{", "x", "}", ":", " ">> }
TrailingProse == { <<>>, <<"\n", "T", "h", "a", "n", "k", "s">> }
\* opening and closing line of a fenced block, tagged and untagged
Fences == { <<FenceJson \o <<"\n">>, <<"\n">> \o Fence>>,
            <<Fence \o <<"\n">>, <<"\n">> \o Fence>> }
Separators == { <<>>, <<" ">>, <<"\n">> }

\* prose, a fenced block holding the serialization of v, prose
Fenced(lead, fence, v, trail) == lead \o fence[1] \o dumps(v) \o fence[2] \o trail
\* two serialized payloads in sequence
InSequence(v, sep, w) == dumps(v) \o sep \o dumps(w)
\* fence contents that are not JSON: prose, and an object cut short
Unparsable == { <<"o", "o", "p", "s">>, <<"{", "\"", "a", "\"", ":">> }
\* the serialization of v on a line of its own before or after a fenced block
\* that holds junk
OutsideFence(v, fence, junk, after) ==
    IF after THEN fence[1] \o junk \o fence[2] \o <<"\n">> \o dumps(v)
    ELSE dumps(v) \o <<"\n">> \o fence[1] \o junk \o fence[2]

JsonTexts ==
    {Fenced(lead, fence, v, trail) :
        lead \in LeadingProse, fence \in Fences, v \in Payloads \cup NonMappings,
        trail \in TrailingProse}
    \cup {InSequence(v, sep, w) : v \in Payloads, sep \in Separators, w \in Payloads}
    \cup {dumps(v) : v \in Payloads \cup NonMappings}
    \cup {OutsideFence(v, fence, junk, after) :
             v \in Payloads, fence \in Fences, junk \in Unparsable, after \in BOOLEAN}
    \cup {GarbageText.chars, MockText.chars}

InitJson ==
    /\ InitStore
    /\ stack = <<>>
    /\ fault_budget = MaxFaults
    /\ \E text \in JsonTexts : gen = [GenIdle EXCEPT !.pc = "returned", !.text = TextOf(text)]

\* generate_json on the text generate has returned: the outcome, and the
\* strategy that produced it
GenerateJsonCall ==
    /\ stack = <<>> /\ gen.pc = "returned" /\ calls = <<>>
    /\ Called([op |-> "generate_json", text |-> gen.text.chars,
               outcome |-> generate_json(gen.text),
               via |-> ExtractJson(gen.text.chars).via])
    /\ gen' = GenIdle
    /\ UNCHANGED <<agent_status, agent_results, execution_log, logged, stack, co, now,
                   sleeps, invocations, fault_budget, runs, mock_mode, state,
                   workflow_start, workflow_end>>

NextJson == GenerateJsonCall

SpecJson == InitJson /\ [][NextJson]_vars

(***************************************************************************)
(* C16  Extraction round-trip: for every structured payload P, when the    *)
(* response is leading prose, a fenced block containing the serialization  *)
(* of P, and trailing prose, generate_json returns exactly P.              *)
(***************************************************************************)
C16_FencedRoundTrip ==
    \A i \in CallsOf("generate_json") :
        \A lead \in LeadingProse, fence \in Fences, P \in Payloads, trail \in TrailingProse :
            calls[i].text = Fenced(lead, fence, P, trail) => calls[i].outcome = Ok(P)

(***************************************************************************)
(* C17  Whenever generate_json returns normally the returned value is a    *)
(* mapping, for every response text, including those whose trimmed text or *)
(* fence content is a JSON array, string, number, boolean or null.         *)
(***************************************************************************)
C17_ReturnsMapping ==
    \A i \in CallsOf("generate_json") :
        calls[i].outcome.ok => calls[i].outcome.value.t = "dict"

(***************************************************************************)
(* C18  Extraction salvage: when the response (no fence) is two balanced   *)
(* brace-delimited JSON objects in sequence, generate_json returns the     *)
(* first object, and the balanced-scan fallback is the strategy that       *)
(* yields it.                                                              *)
(***************************************************************************)
C18_SalvageFirstByScan ==
    \A i \in CallsOf("generate_json") :
        \A P \in Payloads, sep \in Separators, Q \in Payloads :
            calls[i].text = InSequence(P, sep, Q) =>
                calls[i].outcome = Ok(P) /\ calls[i].via = "scan"

(***************************************************************************)
(* C19  Every completed run yields a validation report that is a mapping   *)
(* with status, errors, warnings and stats; status is "PASSED" exactly     *)
(* when errors is empty and "FAILED" otherwise, whatever the warnings.     *)
(***************************************************************************)
IsReport(rep) ==
    /\ rep.t = "dict" /\ rep.keys = {"status", "errors", "warnings", "stats"}
    /\ rep.status \in {"PASSED", "FAILED"}
    /\ rep.status = "PASSED" <=> rep.errors = <<>>

C19_ReportShapeAndStatus ==
    /\ (Len(stack) = 1 /\ Top.agent = Coordinator /\ Top.pos = "returned")
          => IsReport(Top.formatted_result.validation)
    /\ co.validation # Unbound => IsReport(co.validation)

C19_Witness ==
    /\ Len(stack) = 1 /\ Top.agent = Coordinator /\ Top.pos = "returned"
    /\ Top.formatted_result.validation.status = "PASSED"
    /\ Top.formatted_result.validation.warnings # <<>>

(***************************************************************************)
(* C20  The coordinator pauses a fixed 5 seconds between each two          *)
(* consecutive backend steps (after steps 2, 3, 4 and 5), exactly once per *)
(* pair and whether step 2 succeeded or fell back; it does not pause       *)
(* before step 2 nor between step 6 and the validation step.               *)
(***************************************************************************)
\* the coordinator's pauses, in order
Waits == SelectSeq(sleeps, LAMBDA z : z.by = "wait")
\* the pauses taken by the time step n runs
WaitsBefore(n) == IF n <= 2 THEN 0 ELSE IF n = 7 THEN 4 ELSE n - 2

C20_FixedPauseBetweenBackendSteps ==
    /\ Len(Waits) <= 4
    /\ \A k \in DOMAIN Waits : Waits[k].secs = 5 /\ Waits[k].after = k + 1
    /\ \A n \in Steps : (InStep /\ Top.step = n) => Len(Waits) = WaitsBefore(n)
    /\ \A n \in Steps : runs[n] = 1 => Len(Waits) >= WaitsBefore(n)
    /\ co.pc \in {"finish", "done"} => Len(Waits) = 4

C20_Witness ==
    /\ co.pc = "done" /\ Len(Waits) = 4
    /\ get_agent_status(QuestionGenerator) = FAILED
    /\ now >= 20

(***************************************************************************)
(* The pipeline under the scheduling of a single-threaded program: while   *)
(* a step of the run is possible, one is taken. Every backend invocation   *)
(* and every sleep is one step, so this is the assumption that each of     *)
(* them returns.                                                           *)
(***************************************************************************)
SpecLive == Spec /\ WF_vars(Next)

\* Coordinator.run has returned or raised
Finished == Len(stack) = 1 /\ Top.agent = Coordinator /\ Top.pos \in {"returned", "raised"}

(***************************************************************************)
(* C21  Every run terminates: provided each backend invocation and each    *)
(* sleep returns, a started Coordinator.run eventually reaches and stays   *)
(* in a terminal state, in which the Coordinator's status is COMPLETED     *)
(* (the run returned) or FAILED (a fault left it) and no step is left in   *)
(* status RUNNING.                                                         *)
(***************************************************************************)
C21_RunTerminates ==
    /\ [](Finished =>
            /\ get_agent_status(Coordinator) =
                   (IF Top.pos = "returned" THEN COMPLETED ELSE FAILED)
            /\ \A a \in Agents : get_agent_status(a) # RUNNING)
    /\ <>[]Finished

C21_Witness ==
    /\ Finished /\ Top.pos = "raised" /\ co.step = 6
    /\ get_agent_status(Coordinator) = FAILED
    /\ get_agent_status(ContentGenerator) = FAILED
    /\ get_agent_status(QuestionGenerator) = FAILED

(***************************************************************************)
(* C22  A run in which every step succeeds, outside mock mode and with no  *)
(* backend fault (so no retry), makes exactly 5 backend invocations, one   *)
(* in each of steps 2-6: the api_calls value the run's metadata reports.   *)
(***************************************************************************)
\* Coordinator.run has returned and the run of every step succeeded
EveryStepSucceeded ==
    /\ Finished /\ Top.pos = "returned"
    /\ \A a \in Workers : get_agent_status(a) = COMPLETED

C22_FiveBackendCalls ==
    (EveryStepSucceeded /\ ~mock_mode /\ fault_budget = MaxFaults) =>
        /\ Top.formatted_result.metadata.api_calls = 5
        /\ invocations = Top.formatted_result.metadata.api_calls

(***************************************************************************)
(* C23  Whatever the backend does, one generate call invokes it at most    *)
(* max_retries times, once per attempt, and returns the text of the first  *)
(* invocation that succeeds: after a successful invocation the call makes  *)
(* no further invocation and takes no further sleep.                       *)
(***************************************************************************)
C23_OneInvocationPerAttempt ==
    ~mock_mode =>
        /\ gen.invoked <= gen.max_retries
        /\ gen.invoked = Len(gen.raised) + Len(gen.answered)
        /\ gen.invoked = IF gen.pc = "loop" THEN gen.attempt
                         ELSE IF gen.pc \in {"sleep", "returned"} THEN gen.attempt + 1
                         ELSE IF gen.pc = "raised" /\ gen.fault # RetriesExhausted
                              THEN gen.attempt + 1
                         ELSE gen.attempt
        /\ Len(gen.slept) = gen.attempt
        /\ gen.answered # <<>> =>
              /\ gen.pc = "returned"
              /\ gen.answered = <<gen.text>>
              /\ Len(gen.slept) = Len(gen.raised)
        /\ gen.pc = "returned" => gen.answered # <<>>

C23_Witness ==
    /\ ~mock_mode /\ gen.pc = "returned" /\ gen.max_retries = 3
    /\ gen.invoked = 3 /\ Len(gen.raised) = 2 /\ gen.slept = <<30, 60>>
    /\ gen.answered = <<FullText>> /\ gen.text = FullText

(***************************************************************************)
(* C24  When the response holds a fenced block whose content does not      *)
(* parse, generate_json goes on to parse the entire trimmed response, not  *)
(* only the fence content: a response whose parseable object lies outside  *)
(* the unparsable fence is still recovered.                                *)
(***************************************************************************)
C24_ObjectOutsideFenceRecovered ==
    \A i \in CallsOf("generate_json") :
        \A P \in Payloads, fence \in Fences, junk \in Unparsable, after \in BOOLEAN :
            calls[i].text = OutsideFence(P, fence, junk, after) => calls[i].outcome = Ok(P)

(***************************************************************************)
(* C25  The result stored under a step name is the formatted output of the *)
(* most recent successful run under that name: a successful run overwrites *)
(* the result stored before, a failed run leaves it as it was. So          *)
(* ContentGenerator can be FAILED while it holds the page of an earlier    *)
(* task, and after a successful run its result is the comparison page.     *)
(***************************************************************************)
C25_StoredResultIsLatestSuccess ==
    /\ [][agent_results' # agent_results =>
            /\ Active /\ Top.pos = "store"
            /\ agent_results' = DictSet(agent_results, Top.agent, Top.formatted_result)]_vars
    /\ [](\A a \in Workers :
            a \in DOMAIN agent_results =>
                agent_results[a] =
                    IF InStep /\ Top.agent = a /\ Top.pos \in {"complete", "returned"}
                    THEN Top.formatted_result ELSE LastReturned(a))
    /\ []((Finished /\ Top.pos = "returned") =>
            /\ agent_results[Coordinator] = Top.formatted_result
            /\ agent_results[ContentGenerator] = Top.formatted_result.comparison_page)

C25_Witness ==
    /\ get_agent_status(ContentGenerator) = FAILED /\ co.step = 5
    /\ ContentGenerator \in DOMAIN agent_results
    /\ agent_results[ContentGenerator] = co.faq_page
    /\ co.faq_page.t = "FAQPage"

(***************************************************************************)
(* C26  In every state of a run at most one worker step is RUNNING, and    *)
(* while a worker step is RUNNING the Coordinator's own status is RUNNING. *)
(***************************************************************************)
\* the worker steps whose status is RUNNING
RunningWorkers == {a \in Workers : get_agent_status(a) = RUNNING}

C26_AtMostOneWorkerRunning ==
    /\ Cardinality(RunningWorkers) <= 1
    /\ \A a \in RunningWorkers :
          /\ get_agent_status(Coordinator) = RUNNING
          /\ InStep /\ Top.agent = a

C26_Witness ==
    /\ RunningWorkers = {ContentGenerator} /\ co.step = 5
    /\ get_agent_status(QuestionGenerator) = FAILED
    /\ get_agent_status(Coordinator) = RUNNING

(***************************************************************************)
(* Reading the outcome of Coordinator.run                                  *)
(***************************************************************************)
\* positions of the FAILED status events of agent_name
FailedAt(agent_name) ==
    {i \in DOMAIN execution_log : /\ IsStatusEvent(execution_log[i], agent_name)
                                  /\ execution_log[i].data.status = FAILED}
\* the Coordinator's status is COMPLETED exactly when its run returned, FAILED
\* exactly when a fault left it, and a returned run has every fatal step
\* COMPLETED and QuestionGenerator COMPLETED or FAILED
StatusMirrorsReturn ==
    /\ get_agent_status(Coordinator) = COMPLETED <=> (Finished /\ Top.pos = "returned")
    /\ get_agent_status(Coordinator) = FAILED <=> (Finished /\ Top.pos = "raised")
    /\ get_agent_status(Coordinator) = COMPLETED =>
          /\ \A a \in FatalWorkers : get_agent_status(a) = COMPLETED
          /\ get_agent_status(QuestionGenerator) \in Terminal
\* the fault that left the run is the fault of the current step's run, whose
\* FAILED event precedes the Coordinator's
WorkerFaultPropagated ==
    /\ co.step \in Steps
    /\ \E k \in ErrorsOf(StepAgent(co.step)) : logged[k].fault = Top.fault
    /\ \E i \in FailedAt(StepAgent(co.step)), j \in FailedAt(Coordinator) : i < j
\* the Coordinator's own validate_input rejected the input: no step ran
InputRejected ==
    /\ validate_input(Coordinator, Top.input_data) = Top.fault
    /\ co.pc = "idle" /\ \A n \in Steps : runs[n] = 0
    /\ \A a \in Workers : EventsNaming(a) = <<>>

(***************************************************************************)
(* C27  The Coordinator's terminal status mirrors the run's outcome: it is *)
(* COMPLETED exactly when Coordinator.run returned a result, and then      *)
(* DataExtractor, ProductCreator, ContentGenerator and QualityValidator    *)
(* are COMPLETED and QuestionGenerator is COMPLETED or FAILED; it is       *)
(* FAILED exactly when a fault propagated, and then the failing worker's   *)
(* FAILED event precedes the Coordinator's FAILED event in the log.        *)
(***************************************************************************)
C27_FailedAfterFailedWorker ==
    /\ StatusMirrorsReturn
    /\ get_agent_status(Coordinator) = FAILED => WorkerFaultPropagated

(***************************************************************************)
(* C27, amended: as above, except that a FAILED Coordinator has either a   *)
(* failing worker, whose FAILED event precedes its own, or an input that   *)
(* its own validate_input rejected, and then no worker has any event.      *)
(***************************************************************************)
C27_FailedAfterWorkerOrRejection ==
    /\ StatusMirrorsReturn
    /\ get_agent_status(Coordinator) = FAILED =>
          (WorkerFaultPropagated \/ InputRejected)
    /\ ~(WorkerFaultPropagated /\ InputRejected)

C27_Witness ==
    /\ get_agent_status(Coordinator) = FAILED /\ Finished
    /\ WorkerFaultPropagated /\ co.step = 4
    /\ get_agent_status(QuestionGenerator) = COMPLETED
    /\ get_agent_status(ContentGenerator) = FAILED

(***************************************************************************)
(* C28  A FAILED validation report never aborts the run: when the report   *)
(* of QualityValidator has status FAILED, QualityValidator and the         *)
(* Coordinator both end COMPLETED and Coordinator.run returns the three    *)
(* pages and the report. Only faults make a run fail, never the contents   *)
(* of the report.                                                          *)
(***************************************************************************)
\* the validation step has returned a report with errors
FailedReport == co.validation # Unbound /\ co.validation.status = "FAILED"

C28_FailedReportDoesNotAbort ==
    /\ [](get_agent_status(QualityValidator) # FAILED)
    /\ [](FailedReport =>
            /\ co.validation.errors # <<>>
            /\ get_agent_status(QualityValidator) = COMPLETED
            /\ Len(stack) = 1 /\ Top.fault = NoFault /\ Top.pos \notin {"except", "raised"}
            /\ Finished =>
                  /\ get_agent_status(Coordinator) = COMPLETED
                  /\ Top.formatted_result.validation = co.validation
                  /\ Top.formatted_result.faq_page = co.faq_page
                  /\ Top.formatted_result.product_page = co.product_page
                  /\ Top.formatted_result.comparison_page = co.comparison_page)
    /\ []((Finished /\ Top.pos = "raised") => (Top.fault # NoFault /\ co.validation = Unbound))
    /\ (runs[7] = 1) ~> (Finished /\ Top.pos = "returned")

C28_Witness ==
    /\ FailedReport /\ Finished /\ Top.pos = "returned"
    /\ get_agent_status(QualityValidator) = COMPLETED
    /\ get_agent_status(Coordinator) = COMPLETED
    /\ Top.formatted_result.validation.status = "FAILED"

(***************************************************************************)
(* C29  In every generate call each sleep is followed by another backend   *)
(* invocation: generate never sleeps after its final attempt (a throttling *)
(* fault on attempt index max_retries-1 is raised at once), so a call      *)
(* performs at most max_retries-1 sleeps, the k-th of exactly 30*k         *)
(* seconds, and sleeps at most 15*max_retries*(max_retries-1) seconds in   *)
(* total (90 s for the default of 3).                                      *)
(***************************************************************************)
\* the seconds slept by the call so far
SleptTotal ==
    LET sum[k \in 0..Len(gen.slept)] == IF k = 0 THEN 0 ELSE sum[k - 1] + gen.slept[k]
    IN  sum[Len(gen.slept)]

C29_SleepOnlyBeforeAnotherAttempt ==
    /\ [][(gen.pc = "loop" /\ gen.slept # <<>>) =>
             (invocations' = invocations + 1 /\ gen'.invoked = gen.invoked + 1)]_vars
    /\ [](gen.pc = "sleep" =>
             /\ gen.attempt < gen.max_retries - 1
             /\ gen.wait_time = 30 * (gen.attempt + 1))
    /\ []((gen.pc \in {"returned", "raised"} /\ gen.slept # <<>>) =>
             gen.invoked = Len(gen.slept) + 1)
    /\ []((gen.pc = "raised" /\ gen.attempt = gen.max_retries - 1 /\ gen.raised # <<>>) =>
             /\ gen.fault = BackendFault(gen.raised[Len(gen.raised)])
             /\ Len(gen.slept) = gen.max_retries - 1)
    /\ [](Len(gen.slept) <= IF gen.max_retries = 0 THEN 0 ELSE gen.max_retries - 1)
    /\ [](\A k \in 1..Len(gen.slept) : gen.slept[k] = 30 * k)
    /\ [](SleptTotal <= 15 * gen.max_retries * (gen.max_retries - 1))
    /\ [](gen.max_retries = 3 => SleptTotal <= 90)
    /\ [](sleeps = [k \in 1..Len(gen.slept) |-> [by |-> "generate", secs |-> gen.slept[k]]])

C29_Witness ==
    /\ ~mock_mode /\ gen.pc = "raised" /\ gen.max_retries = 3 /\ gen.attempt = 2
    /\ Len(gen.raised) = 3 /\ IsThrottling(gen.raised[3])
    /\ gen.fault = BackendFault(gen.raised[3])
    /\ gen.slept = <<30, 60>> /\ SleptTotal = 90 /\ gen.invoked = 3

(***************************************************************************)
(* C30  Each run that reaches step 4 executes exactly one FAQ task: 'faq'  *)
(* with the pre-generated questions when step 2 yielded a non-empty        *)
(* question mapping whose total count was computed without error, and      *)
(* 'faq_extended' otherwise (step 2 raised, its output was empty, or       *)
(* counting its output failed). The fallback can therefore be taken while  *)
(* the recorded status of QuestionGenerator is COMPLETED.                  *)
(***************************************************************************)
\* step 2 returned a non-empty mapping and the coordinator counted it
QuestionsYielded ==
    /\ get_agent_status(QuestionGenerator) = COMPLETED
    /\ get_agent_result(QuestionGenerator).count > 0
    /\ co.total_questions = IntOf(get_agent_result(QuestionGenerator).count)

C30_OneFaqTask ==
    /\ runs[4] <= 1
    /\ (co.step > 4 \/ (co.step = 4 /\ co.pc # "call")) =>
          /\ runs[4] = 1
          /\ get_agent_status(QuestionGenerator) \in {COMPLETED, FAILED}
    /\ (InStep /\ Top.step = 4) =>
          IF QuestionsYielded
          THEN /\ TaskOf(Top.input_data) = "faq"
               /\ Top.input_data.questions = get_agent_result(QuestionGenerator)
          ELSE /\ TaskOf(Top.input_data) = "faq_extended"
               /\ ~HasKey(Top.input_data, "questions")
               /\ \/ get_agent_status(QuestionGenerator) = FAILED
                  \/ get_agent_result(QuestionGenerator).count = 0
    /\ (InStep /\ Top.step # 4) =>
          TaskOf(Top.input_data) \notin {"faq", "faq_extended"}

C30_Witness ==
    /\ InStep /\ Top.step = 4 /\ Top.pos = "returned"
    /\ TaskOf(Top.input_data) = "faq_extended"
    /\ get_agent_status(QuestionGenerator) = COMPLETED
    /\ get_agent_result(QuestionGenerator) = QuestionsOf(0, "dict")

====
